---- MODULE Spec2Model ----
(***************************************************************************)
(* A model of the report deck generator (src/ppt_generator.py) and of the *)
(* HTTP handler that drives it (src/api_server.py).                        *)
(*                                                                         *)
(* Text is modelled as a sequence of one-character strings, so that the    *)
(* regular expressions and the string methods of the source are computed   *)
(* character by character.  A text shape is a sequence of paragraphs, a    *)
(* paragraph a sequence of runs, a run a record [text, bold].              *)
(***************************************************************************)
EXTENDS Integers, Sequences, FiniteSets, TLC

(***************************************************************************)
(* Strings                                                                 *)
(***************************************************************************)

\* The characters Python's \s and str.split()/str.strip() treat as blank.
WS == {" ", "\n", "\t"}

NL == "\n"

Min(a, b) == IF a < b THEN a ELSE b

Max(a, b) == IF a > b THEN a ELSE b

\* s[i..j] as a sequence, empty when the range is empty (Python s[i-1:j]).
Slice(s, i, j) == IF i > j THEN <<>> ELSE SubSeq(s, i, j)

\* Whether pat occurs in s at position i (1-based).
OccursAt(s, pat, i) ==
    /\ i >= 1
    /\ i + Len(pat) - 1 <= Len(s)
    /\ \A k \in 1..Len(pat) : s[i + k - 1] = pat[k]

\* The positions where pat occurs in s.
Occurrences(s, pat) == {i \in 1..(Len(s) + 1) : OccursAt(s, pat, i)}

\* Python: pat in s
Contains(s, pat) == Occurrences(s, pat) # {}

\* Least element of a non-empty set of integers.
Least(S) == CHOOSE x \in S : \A y \in S : x <= y

\* Python: s.replace(old, new) for a non-empty old: every non-overlapping
\* occurrence, scanning from the left.
RECURSIVE ReplaceAll(_, _, _)
ReplaceAll(s, old, new) ==
    IF Len(old) = 0 \/ ~Contains(s, old) THEN s
    ELSE LET i == Least(Occurrences(s, old))
         IN  Slice(s, 1, i - 1) \o new
               \o ReplaceAll(Slice(s, i + Len(old), Len(s)), old, new)

\* Python: s.split(sep) for a one-character sep: always at least one piece.
RECURSIVE SplitOn(_, _)
SplitOn(s, sep) ==
    IF ~Contains(s, <<sep>>) THEN <<s>>
    ELSE LET i == Least(Occurrences(s, <<sep>>))
         IN  <<Slice(s, 1, i - 1)>> \o SplitOn(Slice(s, i + 1, Len(s)), sep)

\* Python: "".join(s.split()): s without its blank characters.
RECURSIVE RemoveWS(_)
RemoveWS(s) ==
    IF s = <<>> THEN <<>>
    ELSE IF Head(s) \in WS THEN RemoveWS(Tail(s))
    ELSE <<Head(s)>> \o RemoveWS(Tail(s))

\* Python: s.strip()
RECURSIVE LStrip(_)
LStrip(s) == IF s # <<>> /\ Head(s) \in WS THEN LStrip(Tail(s)) ELSE s

RECURSIVE RStrip(_)
RStrip(s) ==
    IF s # <<>> /\ s[Len(s)] \in WS THEN RStrip(Slice(s, 1, Len(s) - 1)) ELSE s

Strip(s) == RStrip(LStrip(s))

\* Concatenation of a sequence of strings.
RECURSIVE Concat(_)
Concat(ss) == IF ss = <<>> THEN <<>> ELSE Head(ss) \o Concat(Tail(ss))

\* Python: sep.join(ss)
RECURSIVE Join(_, _)
Join(ss, sep) ==
    IF ss = <<>> THEN <<>>
    ELSE IF Len(ss) = 1 THEN ss[1]
    ELSE ss[1] \o sep \o Join(Tail(ss), sep)

\* The token {{name}} of a placeholder name (f"{{{{{placeholder_name}}}}}").
placeholder_pattern(name) == <<"{", "{">> \o name \o <<"}", "}">>

(***************************************************************************)
(* Rich-text renderer                                                      *)
(***************************************************************************)

\* The characters of the class [-...] of the auto-bold heuristic that the
\* model's alphabet holds.
DASH == {"-"}

\* Number of leading characters of s that lie in the set cs.
RECURSIVE LeadIn(_, _)
LeadIn(s, cs) == IF s # <<>> /\ Head(s) \in cs THEN 1 + LeadIn(Tail(s), cs) ELSE 0

\* A variant of heuristic_label that never finds a label.
heuristic_label_never(text) == <<>>

\* re.match(r'^\s*[-...]?\s*([^*:]+):', text): the label (group 1), or <<>>
\* when the pattern does not match.  The colon matched is the first colon
\* of the text; everything before it must be free of '*'.  Greedy matching
\* gives the blanks and the dash to the prefix; when that leaves no
\* character for the label, backtracking gives it the last character.
heuristic_label(text) ==
    LET label(P) ==
            LET a == LeadIn(P, WS)
                d == IF a < Len(P) /\ P[a + 1] \in DASH THEN 1 ELSE 0
                b == LeadIn(Slice(P, a + d + 1, Len(P)), WS)
                L == Slice(P, a + d + b + 1, Len(P))
            IN  IF P = <<>> \/ Contains(P, <<"*">>) THEN <<>>
                ELSE IF L # <<>> THEN L
                ELSE <<P[Len(P)]>>
    IN  IF ~Contains(text, <<":">>) THEN <<>>
        ELSE label(Slice(text, 1, Least(Occurrences(text, <<":">>)) - 1))

\* text_content.replace(f"{label}:", f"**{label}:**", 1) when the heuristic
\* matches: the first occurrence of label+':' is the matched one.
auto_bold(text) ==
    LET replaced(L) ==
            IF L = <<>> THEN text
            ELSE LET occ == Least(Occurrences(text, L \o <<":">>))
                 IN  Slice(text, 1, occ - 1) \o <<"*", "*">> \o L \o <<":", "*", "*">>
                       \o Slice(text, occ + Len(L) + 1, Len(text))
    IN  replaced(heuristic_label(text))

\* The end of the match of (\*\*.*?\*\*|\*.*?\*) that starts at position i,
\* or 0 when none starts there.  '.' does not match a newline; the
\* double-star alternative is tried first, and each is lazy.
star_match_end(s, i) ==
    IF i > Len(s) \/ s[i] # "*" THEN 0
    ELSE LET dbl == {j \in (i + 2)..(Len(s) - 1) :
                        /\ s[j] = "*" /\ s[j + 1] = "*"
                        /\ \A k \in (i + 2)..(j - 1) : s[k] # NL}
             sgl == {j \in (i + 1)..Len(s) :
                        /\ s[j] = "*"
                        /\ \A k \in (i + 1)..(j - 1) : s[k] # NL}
         IN  IF i < Len(s) /\ s[i + 1] = "*" /\ dbl # {} THEN Least(dbl) + 1
             ELSE IF sgl # {} THEN Least(sgl)
             ELSE 0

\* re.split(r'(\*\*.*?\*\*|\*.*?\*)', s): the pieces between the matches
\* and the matches themselves, in order.
RECURSIVE split_stars(_)
split_stars(s) ==
    LET starts == {i \in 1..Len(s) : star_match_end(s, i) # 0}
    IN  IF starts = {} THEN <<s>>
        ELSE LET i == Least(starts)
                 e == star_match_end(s, i)
             IN  <<Slice(s, 1, i - 1), Slice(s, i, e)>>
                   \o split_stars(Slice(s, e + 1, Len(s)))

StartsWith(s, pre) == OccursAt(s, pre, 1)

EndsWith(s, suf) == Len(suf) <= Len(s) /\ OccursAt(s, suf, Len(s) - Len(suf) + 1)

\* A variant of make_run that leaves the markers in the text of the run.
make_run_unstripped(part, bold) ==
    [text |-> part,
     bold |-> \/ bold
              \/ StartsWith(part, <<"*", "*">>) /\ EndsWith(part, <<"*", "*">>) /\ Len(part) > 4
              \/ StartsWith(part, <<"*">>) /\ EndsWith(part, <<"*">>) /\ Len(part) > 2]

\* The run made of one piece of the split (lines 252-280).
make_run(part, bold) ==
    LET is_double_star == /\ StartsWith(part, <<"*", "*">>)
                          /\ EndsWith(part, <<"*", "*">>)
                          /\ Len(part) > 4
        is_single_star == /\ StartsWith(part, <<"*">>)
                          /\ EndsWith(part, <<"*">>)
                          /\ Len(part) > 2
        run_text == IF is_double_star THEN Slice(part, 3, Len(part) - 2)
                    ELSE IF is_single_star THEN Slice(part, 2, Len(part) - 1)
                    ELSE part
    IN  [text |-> run_text, bold |-> bold \/ is_double_star \/ is_single_star]

RECURSIVE runs_of_parts(_, _)
runs_of_parts(parts, bold) ==
    IF parts = <<>> THEN <<>>
    ELSE IF Head(parts) = <<>> THEN runs_of_parts(Tail(parts), bold)
    ELSE <<make_run(Head(parts), bold)>> \o runs_of_parts(Tail(parts), bold)

\* replace_paragraph_with_markdown: the runs of the paragraph afterwards.
\* paragraph.clear() drops the prior runs, so they do not enter the result.
replace_paragraph_with_markdown(text_content, bold) ==
    runs_of_parts(split_stars(auto_bold(text_content)), bold)

(***************************************************************************)
(* Shapes                                                                  *)
(***************************************************************************)

\* The text of a paragraph: ''.join(run.text for run in para.runs).
para_text(para) == Concat([i \in 1..Len(para) |-> para[i].text])

\* The text of a shape as the locator reads it: the paragraphs' run texts
\* one after the other, with nothing between two paragraphs.
full_text(shape) == Concat([i \in 1..Len(shape.paras) |-> para_text(shape.paras[i])])

\* A variant of replace_shape_text that puts the whole text into the first
\* paragraph.
replace_shape_text_one_paragraph(shape, new_text, bold) ==
    [shape EXCEPT !.paras = <<replace_paragraph_with_markdown(new_text, bold)>>]

\* A variant of replace_shape_text that leaves the paragraphs after the
\* first in the shape.
replace_shape_text_appends(shape, new_text, bold) ==
    LET lines == SplitOn(new_text, NL)
    IN  [shape EXCEPT !.paras =
            <<replace_paragraph_with_markdown(lines[1], bold)>>
              \o (IF Len(shape.paras) > 0 THEN Tail(shape.paras) ELSE <<>>)
              \o [i \in 1..(Len(lines) - 1) |->
                     replace_paragraph_with_markdown(lines[i + 1], bold)]]

\* replace_shape_text, lines 185-212.  The paragraphs after the first are
\* removed and the first is cleared; the first line goes to the first
\* paragraph (added when the shape had none) and every further line to a
\* paragraph added at the end.
replace_shape_text(shape, new_text, bold) ==
    LET all_paras == shape.paras
        cleared == IF Len(all_paras) > 0 THEN <<<<>>>> ELSE <<>>
        base == IF Len(cleared) > 0 THEN cleared ELSE cleared \o <<<<>>>>
        filled(lines) ==
            [i \in 1..(Len(base) + Len(lines) - 1) |->
                replace_paragraph_with_markdown(lines[i - Len(base) + 1], bold)]
    IN  [shape EXCEPT !.paras = filled(SplitOn(new_text, NL))]

\* What replace_shape_text has done to the shape when new_text.split raises
\* (new_text is no string): lines 185-194 have already run.
shape_cleared(shape) ==
    [shape EXCEPT !.paras = IF Len(shape.paras) > 0 THEN <<<<>>>> ELSE <<>>]

\* replace_shape_text called with a value of a record: new_text.split
\* (line 197) raises AttributeError when the value is null or a number,
\* after the shape was cleared.
replace_shape_text_on(shape, val, bold) ==
    IF val.t # "str"
    THEN [shape |-> shape_cleared(shape), raised |-> TRUE]
    ELSE [shape |-> replace_shape_text(shape, val.s, bold), raised |-> FALSE]

\* A variant of is_whole_shape that takes every shape with the token for a
\* shape that holds nothing else.
is_whole_shape_always(text, pattern) == TRUE

\* Lines 356-363: the shape holds the token and nothing else.
is_whole_shape(text, pattern) ==
    \/ RemoveWS(text) = RemoveWS(pattern)
    \/ Strip(text) = pattern

\* The values a record holds: a string, a number or null.
Str(s) == [t |-> "str", n |-> 0, s |-> s]

Num(n) == [t |-> "num", n |-> n, s |-> <<>>]

Null == [t |-> "null", n |-> 0, s |-> <<>>]

\* A variant of inline_replace that renders only the first paragraph that
\* holds the token.
inline_replace_first(shape, pattern, val, bold) ==
    LET hit == {i \in 1..Len(shape.paras) : Contains(para_text(shape.paras[i]), pattern)}
    IN  IF hit # {} /\ val.t # "str"
        THEN [shape |-> shape, count |-> 0, raised |-> TRUE]
        ELSE [shape |-> [shape EXCEPT !.paras =
                            [i \in 1..Len(shape.paras) |->
                                IF i \in hit /\ \A j \in hit : i <= j
                                THEN replace_paragraph_with_markdown(
                                         ReplaceAll(para_text(shape.paras[i]), pattern, val.s),
                                         bold)
                                ELSE shape.paras[i]]],
              count |-> IF hit = {} THEN 0 ELSE 1,
              raised |-> FALSE]

\* Lines 371-379 on one shape: every paragraph that holds the token is
\* rendered again from its text with the token replaced.  str.replace raises
\* TypeError at the first such paragraph when the value is no string.
inline_replace(shape, pattern, val, bold) ==
    LET hit == {i \in 1..Len(shape.paras) : Contains(para_text(shape.paras[i]), pattern)}
    IN  IF hit # {} /\ val.t # "str"
        THEN [shape |-> shape, count |-> 0, raised |-> TRUE]
        ELSE [shape |-> [shape EXCEPT !.paras =
                            [i \in 1..Len(shape.paras) |->
                                IF i \in hit
                                THEN replace_paragraph_with_markdown(
                                         ReplaceAll(para_text(shape.paras[i]), pattern, val.s),
                                         bold)
                                ELSE shape.paras[i]]],
              count |-> Cardinality(hit),
              raised |-> FALSE]

\* Lines 342-379 on one shape.
replace_in_shape(shape, name, val, bold) ==
    LET pattern == placeholder_pattern(name)
        text == full_text(shape)
    IN  IF ~Contains(text, pattern)
        THEN [shape |-> shape, count |-> 0, raised |-> FALSE]
        ELSE IF is_whole_shape(text, pattern)
        THEN IF val.t # "str"
             THEN [shape |-> shape_cleared(shape), count |-> 0, raised |-> TRUE]
             ELSE [shape |-> replace_shape_text(shape, val.s, bold),
                   count |-> 1, raised |-> FALSE]
        ELSE inline_replace(shape, pattern, val, bold)

\* find_and_replace_placeholder over the text shapes of the document, in
\* document order, from shape i on: the shapes afterwards, the count
\* returned, and whether the call raised instead of returning.
RECURSIVE frp_from(_, _, _, _, _)
frp_from(shapes, i, name, val, bold) ==
    LET after(r) ==
            IF r.raised
            THEN [shapes |-> [shapes EXCEPT ![i] = r.shape], count |-> 0, raised |-> TRUE]
            ELSE [frp_from([shapes EXCEPT ![i] = r.shape], i + 1, name, val, bold)
                     EXCEPT !.count = @ + r.count]
    IN  IF i > Len(shapes) THEN [shapes |-> shapes, count |-> 0, raised |-> FALSE]
        ELSE after(replace_in_shape(shapes[i], name, val, bold))

find_and_replace_placeholder(shapes, name, val, bold) ==
    frp_from(shapes, 1, name, val, bold)

(***************************************************************************)
(* Markdown normalizer                                                     *)
(***************************************************************************)

\* re.sub over text from position pos on: M(text, i) is the match starting
\* at i, [e |-> its last position (0: no match at i), r |-> what replaces
\* it].  The leftmost match is replaced and the scan goes on after it;
\* look-behinds read the original text.
RECURSIVE regex_sub(_, _, _)
regex_sub(M(_, _), text, pos) ==
    LET starts == {i \in pos..Len(text) : M(text, i).e # 0}
    IN  IF starts = {} THEN Slice(text, pos, Len(text))
        ELSE LET i == Least(starts)
                 m == M(text, i)
             IN  Slice(text, pos, i - 1) \o m.r \o regex_sub(M, text, m.e + 1)

NoMatch == [e |-> 0, r |-> <<>>]

\* The last position of the run of non-newline characters that starts at q.
line_end(text, q) ==
    LET rest == Slice(text, q, Len(text))
    IN  q + LeadIn(rest, {rest[k] : k \in 1..Len(rest)} \ {NL}) - 1

\* ^#{1,6}\s*(.+)$ with re.MULTILINE, at position i.  The hashes and the
\* blanks (newlines among them) are taken greedily and given back one by one
\* until the group (.+) finds a non-newline character to start on.
header_match(text, i) ==
    IF ~(i = 1 \/ text[i - 1] = NL) THEN NoMatch
    ELSE LET h == LeadIn(Slice(text, i, Len(text)), {"#"})
             cand == {c \in (1..Min(h, 6)) \X (0..Len(text)) :
                         /\ c[2] <= LeadIn(Slice(text, i + c[1], Len(text)), WS)
                         /\ i + c[1] + c[2] <= Len(text)
                         /\ text[i + c[1] + c[2]] # NL}
         IN  IF cand = {} THEN NoMatch
             ELSE LET best == CHOOSE c \in cand : \A d \in cand :
                                  \/ c[1] > d[1]
                                  \/ c[1] = d[1] /\ c[2] >= d[2]
                      q == i + best[1] + best[2]
                  IN  [e |-> line_end(text, q), r |-> Slice(text, q, line_end(text, q))]

\* (?<!c)c(?!c)(.+?)(?<!c)c(?!c) at position i, for the marker character c.
single_marker_match(c, text, i) ==
    LET lone(j) == /\ text[j] = c
                   /\ (j = 1 \/ text[j - 1] # c)
                   /\ (j = Len(text) \/ text[j + 1] # c)
        ends == {j \in (i + 2)..Len(text) :
                    /\ lone(j)
                    /\ \A k \in (i + 1)..(j - 1) : text[k] # NL}
    IN  IF lone(i) /\ ends # {}
        THEN [e |-> Least(ends), r |-> Slice(text, i + 1, Least(ends) - 1)]
        ELSE NoMatch

italic_star_match(text, i) == single_marker_match("*", text, i)

italic_underscore_match(text, i) == single_marker_match("_", text, i)

\* __(.+?)__ at position i.
bold_underscore_match(text, i) ==
    LET ends == {j \in (i + 3)..(Len(text) - 1) :
                    /\ text[j] = "_" /\ text[j + 1] = "_"
                    /\ \A k \in (i + 2)..(j - 1) : text[k] # NL}
    IN  IF OccursAt(text, <<"_", "_">>, i) /\ ends # {}
        THEN [e |-> Least(ends) + 1, r |-> Slice(text, i + 2, Least(ends) - 1)]
        ELSE NoMatch

\* \[([^\]]+)\]\([^\)]+\) at position i.
link_match(text, i) ==
    LET closeB == {j \in (i + 1)..Len(text) : text[j] = "]"}
        c == IF closeB = {} THEN 0 ELSE Least(closeB)
        closeP == {j \in (c + 2)..Len(text) : text[j] = ")"}
        e == IF closeP = {} THEN 0 ELSE Least(closeP)
    IN  IF /\ text[i] = "["
           /\ c >= i + 2
           /\ c < Len(text) /\ text[c + 1] = "("
           /\ e >= c + 3
        THEN [e |-> e, r |-> Slice(text, i + 1, c - 1)]
        ELSE NoMatch

\* \n{3,} at position i: the whole run of newlines, replaced by two.
newlines_match(text, i) ==
    LET n == LeadIn(Slice(text, i, Len(text)), {NL})
    IN  IF n >= 3 THEN [e |-> i + n - 1, r |-> <<NL, NL>>] ELSE NoMatch

\* parse_markdown_to_text on a string (lines 94-118).
normalize_text(markdown_text) ==
    LET t1 == regex_sub(header_match, markdown_text, 1)
        t2 == regex_sub(italic_star_match, t1, 1)
        t3 == regex_sub(bold_underscore_match, t2, 1)
        t4 == regex_sub(italic_underscore_match, t3, 1)
        t5 == regex_sub(link_match, t4, 1)
        t6 == regex_sub(newlines_match, t5, 1)
        split == SplitOn(t6, NL)
        lines == [i \in 1..Len(split) |-> Strip(split[i])]
    IN  Strip(Join(lines, <<NL>>))

(***************************************************************************)
(* Records and numbers                                                     *)
(***************************************************************************)

\* The characters of a string constant, one by one.
Chars(str) == [i \in 1..Len(str) |-> SubSeq(str, i, i)]

\* data.get(key, default); a key that is present with null gives null.
Get(data, key, default) == IF key \in DOMAIN data THEN data[key] ELSE default

\* data.get(key): None when the key is absent.
GetOpt(data, key) == Get(data, key, Null)

\* Python truth value of a record value.
Truthy(v) == \/ v.t = "str" /\ v.s # <<>>
             \/ v.t = "num" /\ v.n # 0

DigitChars == <<"0", "1", "2", "3", "4", "5", "6", "7", "8", "9">>

IsDigit(c) == \E d \in 1..10 : DigitChars[d] = c

DigitVal(c) == (CHOOSE d \in 1..10 : DigitChars[d] = c) - 1

\* str(n) for a non-negative integer n.
RECURSIVE NatToStr(_)
NatToStr(n) ==
    IF n < 10 THEN <<DigitChars[n + 1]>>
    ELSE NatToStr(n \div 10) \o <<DigitChars[(n % 10) + 1]>>

\* str(n) for an integer n.
IntToStr(n) == IF n < 0 THEN <<"-">> \o NatToStr(-n) ELSE NatToStr(n)

\* str(v) of a record value (line 1039, line 733): "None" for null.
PyStr(v) ==
    IF v.t = "str" THEN v.s
    ELSE IF v.t = "num" THEN IntToStr(v.n)
    ELSE Chars("None")

\* str.isdigit(): non-empty and all digits.
IsDigits(s) == s # <<>> /\ \A i \in 1..Len(s) : IsDigit(s[i])

\* A float is a fraction num/den with den > 0; NoneF stands for None and
\* NaNF for the float that is not a number.
NoneF == [num |-> 0, den |-> 0]

NaNF == [num |-> 1, den |-> 0]

IsNone(x) == x = NoneF

Frac(n, d) == IF d < 0 THEN [num |-> -n, den |-> -d] ELSE [num |-> n, den |-> d]

\* The value of a string of digits.
RECURSIVE DigitsVal(_)
DigitsVal(s) ==
    IF s = <<>> THEN 0 ELSE DigitsVal(Slice(s, 1, Len(s) - 1)) * 10 + DigitVal(s[Len(s)])

RECURSIVE Pow10(_)
Pow10(k) == IF k = 0 THEN 1 ELSE 10 * Pow10(k - 1)

\* float(s) for a string over digits, sign, point and other characters
\* (the strings of the model hold no exponent, underscore or "inf", and
\* "nan" in small letters only): blanks around are ignored; "nan", signed
\* or not, is the float that is not a number; ValueError gives NoneF.
py_float(s) ==
    LET value(neg, body, ip, frac, ok) ==
            IF ~ok THEN NoneF
            ELSE [num |-> (IF neg THEN -1 ELSE 1)
                            * (DigitsVal(Slice(body, 1, ip)) * Pow10(Len(frac)) + DigitsVal(frac)),
                  den |-> Pow10(Len(frac))]
        fraction(neg, body, ip, hasDot) ==
            LET frac == IF hasDot THEN Slice(body, ip + 2, Len(body)) ELSE <<>>
            IN  value(neg, body, ip, frac,
                      IF hasDot THEN IsDigits(frac) \/ (frac = <<>> /\ ip > 0)
                      ELSE ip = Len(body) /\ ip > 0)
        integer(neg, body, ip) ==
            fraction(neg, body, ip, ip < Len(body) /\ body[ip + 1] = ".")
        unsigned(neg, body) ==
            integer(neg, body, LeadIn(body, {DigitChars[d] : d \in 1..10}))
        stripped(t) ==
            LET signed == t # <<>> /\ t[1] \in {"-", "+"}
                body == IF signed THEN Tail(t) ELSE t
            IN  IF body = <<"n", "a", "n">> THEN NaNF
                ELSE unsigned(signed /\ t[1] = "-", body)
    IN  stripped(Strip(s))

\* p_float (lines 695-700) and safe_float (lines 749-756): the two helpers
\* differ only by a strip that float() performs anyway.
p_float(v) ==
    IF v.t = "null" THEN NoneF
    ELSE IF v.t = "num" THEN [num |-> v.n, den |-> 1]
    ELSE IF v.s = <<>> \/ v.s = <<"-">> THEN NoneF
    ELSE py_float(ReplaceAll(v.s, <<",">>, <<>>))

\* x rounded to a whole number of units of 1/scale, half to even, as a
\* magnitude (the sign is kept apart).
RoundMag(x, scale) ==
    LET a == IF x.num < 0 THEN -x.num ELSE x.num
        f == (a * scale) \div x.den
        rem == (a * scale) % x.den
    IN  IF 2 * rem > x.den THEN f + 1
        ELSE IF 2 * rem = x.den THEN f + (f % 2)
        ELSE f

\* "{:.1f}".format(x)
fmt_1f(x) ==
    IF x = NaNF THEN <<"n", "a", "n">>
    ELSE LET m == RoundMag(x, 10)
         IN  (IF x.num < 0 THEN <<"-">> ELSE <<>>)
               \o NatToStr(m \div 10) \o <<".">> \o <<DigitChars[(m % 10) + 1]>>

\* The digits of n with a comma before every group of three from the right.
RECURSIVE Grouped(_)
Grouped(n) ==
    IF n < 1000 THEN NatToStr(n)
    ELSE LET r == n % 1000
         IN  Grouped(n \div 1000) \o <<",">>
               \o <<DigitChars[(r \div 100) + 1], DigitChars[((r \div 10) % 10) + 1],
                    DigitChars[(r % 10) + 1]>>

\* "{:,.0f}".format(x)
fmt_comma_0f(x) ==
    IF x = NaNF THEN <<"n", "a", "n">>
    ELSE (IF x.num < 0 THEN <<"-">> ELSE <<>>) \o Grouped(RoundMag(x, 1))

\* (a / b) * 100 and ((c - p) / abs(p)) * 100 as fractions; the result is
\* not a number when an operand is not.
Percent(a, b) ==
    IF a = NaNF \/ b = NaNF THEN NaNF
    ELSE Frac(a.num * b.den * 100, a.den * b.num)

Growth(c, p) ==
    LET diff == [num |-> c.num * p.den - p.num * c.den, den |-> c.den * p.den]
        absp == [num |-> IF p.num < 0 THEN -p.num ELSE p.num, den |-> p.den]
    IN  IF c = NaNF \/ p = NaNF THEN NaNF ELSE Percent(diff, absp)

(***************************************************************************)
(* Orchestrator: populate_from_data                                        *)
(***************************************************************************)

\* The empty dictionary.
EmptyMap == [k \in {} |-> TRUE]

\* data[key] = value
Put(data, key, value) ==
    [k \in DOMAIN data \cup {key} |-> IF k = key THEN value ELSE data[k]]

YearStr == [y \in 23..28 |-> SubSeq("232425262728", 2 * (y - 23) + 1, 2 * (y - 23) + 2)]

\* Lines 710-721 for one year y and the metrics from index i on.
RECURSIVE enrich_growth(_, _, _)
enrich_growth(data, y, i) ==
    LET metrics == <<"revenue", "ebitda", "pat">>
    IN  IF i > Len(metrics) THEN data
        ELSE LET metric == metrics[i]
                 curr == p_float(GetOpt(data, metric \o "_fy" \o YearStr[y]))
                 prev == p_float(GetOpt(data, metric \o "_fy" \o YearStr[y - 1]))
                 formatted_growth == Str(fmt_1f(Growth(curr, prev)))
                 d1 == Put(data, metric \o "_growth_fy" \o YearStr[y], formatted_growth)
                 d2 == IF metric = "revenue"
                       THEN Put(d1, "sales_growth_fy" \o YearStr[y], formatted_growth)
                       ELSE d1
             IN  IF ~IsNone(curr) /\ ~IsNone(prev) /\ prev.num # 0
                 THEN enrich_growth(d2, y, i + 1)
                 ELSE enrich_growth(data, y, i + 1)

\* Lines 690-721: the loop over the years from index i on.  The derived
\* keys are written into the dictionary the caller passed.
RECURSIVE enrich(_, _)
enrich(data, i) ==
    LET years == <<24, 25, 26, 27, 28>>
    IN  IF i > Len(years) THEN data
        ELSE LET y == years[i]
                 rev == p_float(GetOpt(data, "revenue_fy" \o YearStr[y]))
                 ebit == p_float(GetOpt(data, "ebitda_fy" \o YearStr[y]))
                 d1 == IF ~IsNone(rev) /\ ~IsNone(ebit) /\ rev.num # 0
                       THEN Put(data, "ebitda_margin_fy" \o YearStr[y],
                                Str(fmt_1f(Percent(ebit, rev))))
                       ELSE data
             IN  enrich(enrich_growth(d1, y, 1), i + 1)

\* Lines 728-741: the financial_performance field is a markdown table when
\* it holds a pipe, and a text summary otherwise.
has_markdown_table(data) ==
    LET financial_val == Get(data, "financial_performance", Str(<<>>))
    IN  Truthy(financial_val) /\ Contains(PyStr(financial_val), <<"|">>)

financial_text_summary(data) ==
    LET financial_val == Get(data, "financial_performance", Str(<<>>))
    IN  IF ~has_markdown_table(data) /\ Truthy(financial_val)
        THEN Str(PyStr(financial_val))
        ELSE Str(<<>>)

\* The strings of a sequence that are not empty, in order.
RECURSIVE NonEmpty(_)
NonEmpty(ss) ==
    IF ss = <<>> THEN <<>>
    ELSE (IF Head(ss) = <<>> THEN <<>> ELSE <<Head(ss)>>) \o NonEmpty(Tail(ss))

\* Lines 397-411 from line i on: the rows of the lines that hold a pipe,
\* separator lines and lines without a cell left out.
RECURSIVE table_rows(_, _)
table_rows(lines, i) ==
    IF i > Len(lines) THEN <<>>
    ELSE LET line == lines[i]
             split == SplitOn(line, "|")
             row == NonEmpty([k \in 1..Len(split) |-> Strip(split[k])])
         IN  (IF Contains(line, <<"-", "-", "-">>) \/ Strip(line) = <<>>
                 \/ ~Contains(line, <<"|">>) \/ row = <<>>
              THEN <<>> ELSE <<row>>)
               \o table_rows(lines, i + 1)

\* parse_markdown_table_to_data, lines 383-413.
parse_markdown_table_to_data(markdown_text) ==
    IF markdown_text = <<>> THEN <<>>
    ELSE table_rows(SplitOn(Strip(markdown_text), NL), 1)

\* The cell of a value that is not available.
NoValue == <<"-">>

\* safe_float, lines 749-756.
safe_float(val) ==
    IF val.t = "null" THEN NoneF
    ELSE IF val.t = "num" THEN [num |-> val.n, den |-> 1]
    ELSE IF val.s = <<>> \/ val.s = <<"-">> THEN NoneF
    ELSE py_float(Strip(ReplaceAll(val.s, <<",">>, <<>>)))

\* A variant of calc_growth that divides by the previous value itself.
calc_growth_signed(current_val, prev_val) ==
    LET cell(curr, prev) ==
            IF ~IsNone(curr) /\ ~IsNone(prev) /\ prev.num # 0
            THEN (IF curr = NaNF \/ prev = NaNF THEN fmt_1f(NaNF)
                  ELSE fmt_1f(Percent([num |-> curr.num * prev.den - prev.num * curr.den,
                                       den |-> curr.den * prev.den], prev)))
            ELSE NoValue
    IN  cell(safe_float(current_val), safe_float(prev_val))

\* calc_growth, lines 759-765.
calc_growth(current_val, prev_val) ==
    LET cell(curr, prev) ==
            IF ~IsNone(curr) /\ ~IsNone(prev) /\ prev.num # 0
            THEN fmt_1f(Growth(curr, prev))
            ELSE NoValue
    IN  cell(safe_float(current_val), safe_float(prev_val))

\* calc_margin, lines 768-774.
calc_margin(numerator_val, denominator_val) ==
    LET cell(num, den) ==
            IF ~IsNone(num) /\ ~IsNone(den) /\ den.num # 0
            THEN fmt_1f(Percent(num, den))
            ELSE NoValue
    IN  cell(safe_float(numerator_val), safe_float(denominator_val))

\* get_val_fmt, lines 777-781; fmt is "{:,.0f}" or "{:.1f}".
get_val_fmt(data, key, fmt) ==
    LET cell(val) ==
            IF ~IsNone(val)
            THEN (IF fmt = "{:,.0f}" THEN fmt_comma_0f(val) ELSE fmt_1f(val))
            ELSE NoValue
    IN  cell(safe_float(GetOpt(data, key)))

\* Line 803.
headers == <<Chars("Particulars"), Chars("FY24A"), Chars("FY25A"), Chars("FY26E"),
             Chars("FY27E"), Chars("FY28E")>>

\* The key of a metric in a fiscal year, f'{metric}_fy{y}'.
FyKey(metric, y) == metric \o "_fy" \o YearStr[y]

\* A row of values looked up (lines 808-810, 821-823, 839-841, 852-859).
direct_row(data, label, metric, fmt) ==
    <<Chars(label)>> \o [i \in 1..5 |-> get_val_fmt(data, FyKey(metric, 23 + i), fmt)]

\* A row of growth over the year before (lines 813-818, 831-836, 844-849).
growth_row(data, metric) ==
    <<Chars("YoY% growth")>>
      \o [i \in 1..5 |-> calc_growth(GetOpt(data, FyKey(metric, 23 + i)),
                                      GetOpt(data, FyKey(metric, 22 + i)))]

\* The row of margins (lines 826-828).
margin_row(data) ==
    <<Chars("% Margin")>>
      \o [i \in 1..5 |-> calc_margin(GetOpt(data, FyKey("ebitda", 23 + i)),
                                      GetOpt(data, FyKey("revenue", 23 + i)))]

\* A variant of rows without the two rows of valuation ratios.
rows_without_ratios(data) ==
    <<  direct_row(data, "Sales", "revenue", "{:,.0f}"),
        growth_row(data, "revenue"),
        direct_row(data, "EBITDA", "ebitda", "{:,.0f}"),
        margin_row(data),
        growth_row(data, "ebitda"),
        direct_row(data, "PAT", "pat", "{:,.0f}"),
        growth_row(data, "pat") >>

\* Lines 806-860.
rows(data) ==
    <<  direct_row(data, "Sales", "revenue", "{:,.0f}"),
        growth_row(data, "revenue"),
        direct_row(data, "EBITDA", "ebitda", "{:,.0f}"),
        margin_row(data),
        growth_row(data, "ebitda"),
        direct_row(data, "PAT", "pat", "{:,.0f}"),
        growth_row(data, "pat"),
        direct_row(data, "P/E", "pe", "{:.1f}"),
        direct_row(data, "P/B", "pb", "{:.1f}") >>

\* A variant of table_data that builds the grid from the fields of the
\* years whatever the financial_performance field holds.
table_data_from_fields(data) == <<headers>> \o rows(data)

\* Lines 728-862: the table of the financial_performance field when it
\* holds a pipe, and the grid built from the fields of the years otherwise.
table_data(data) ==
    IF has_markdown_table(data)
    THEN parse_markdown_table_to_data(PyStr(Get(data, "financial_performance", Str(<<>>))))
    ELSE <<headers>> \o rows(data)

LowerCs == Chars("abcdefghijklmnopqrstuvwxyz")

UpperCs == Chars("ABCDEFGHIJKLMNOPQRSTUVWXYZ")

\* str.upper()
ToUpper(s) ==
    [i \in 1..Len(s) |->
        IF \E k \in 1..26 : LowerCs[k] = s[i]
        THEN UpperCs[CHOOSE k \in 1..26 : LowerCs[k] = s[i]]
        ELSE s[i]]

\* Lines 615-636.
KNOWN_BSE_CODES ==
    <<  <<"WIPRO", "507685">>, <<"TCS", "532540">>, <<"INFY", "500209">>,
        <<"RELIANCE", "500325">>, <<"HDFCBANK", "500180">>, <<"ICICIBANK", "532174">>,
        <<"SBIN", "500112">>, <<"BHARTIARTL", "532454">>, <<"ITC", "500875">>,
        <<"HINDUNILVR", "500696">>, <<"KOTAKBANK", "500247">>, <<"LT", "500510">>,
        <<"AXISBANK", "532215">>, <<"ASIANPAINT", "500820">>, <<"MARUTI", "532500">>,
        <<"TATAMOTORS", "500570">>, <<"SUNPHARMA", "524715">>, <<"TITAN", "500114">>,
        <<"BAJFINANCE", "500034">>, <<"HCLTECH", "532281">> >>

\* fetch_bom_code, lines 639-676.  symbol.upper() raises AttributeError for
\* a non-zero number; the search of the quote service is inside a try and
\* yields netBom: a code found there, or " " when nothing was found.
fetch_bom_code_raises(symbol) == Truthy(symbol) /\ symbol.t # "str"

fetch_bom_code(symbol, netBom) ==
    LET symbol_upper == IF Truthy(symbol) THEN ToUpper(symbol.s) ELSE <<>>
        known == {k \in 1..Len(KNOWN_BSE_CODES) : Chars(KNOWN_BSE_CODES[k][1]) = symbol_upper}
    IN  IF known # {} THEN Str(Chars(KNOWN_BSE_CODES[CHOOSE k \in known : TRUE][2]))
        ELSE Str(netBom)

\* Lines 944-955.
is_valid_bom(data) ==
    LET bom_code == Get(data, "bom_code", Str(<<>>))
    IN  Truthy(bom_code) /\ IsDigits(Strip(PyStr(bom_code)))

bom_symbol(data) == Get(data, "nse_symbol", Get(data, "symbol", Str(<<>>)))

bom_code_value(data, netBom) ==
    IF is_valid_bom(data) THEN Get(data, "bom_code", Str(<<>>))
    ELSE fetch_bom_code(bom_symbol(data), netBom)

\* Lines 958-960.
rating_value(data) ==
    LET rating == Get(data, "rating", Str(<<>>))
    IN  IF ~Truthy(rating) \/ Strip(PyStr(rating)) = <<>>
        THEN Str(Chars("N/A"))
        ELSE rating

\* parse_markdown_to_text on a record value: "" for a falsy value; re.sub
\* raises TypeError for a non-zero number.
parse_markdown_to_text_raises(v) == Truthy(v) /\ v.t # "str"

parse_markdown_to_text(v) ==
    IF Truthy(v) /\ v.t = "str" THEN Str(normalize_text(v.s)) ELSE Str(<<>>)

\* data.get(key) or default
GetOr(data, key, default) ==
    IF Truthy(GetOpt(data, key)) THEN GetOpt(data, key) ELSE Str(Chars(default))

EmptyStr == Str(<<>>)

\* The arguments of the calls of parse_markdown_to_text in lines 970-1020,
\* in the order of the calls.
long_form_args(data) ==
    <<  Get(data, "company_background", EmptyStr),
        Get(data, "business_model", EmptyStr),
        Get(data, "management_analysis", EmptyStr),
        Get(data, "industry_overview", EmptyStr),
        Get(data, "industry_tailwinds", Get(data, "key_industry", EmptyStr)),
        Get(data, "demand_drivers", EmptyStr),
        Get(data, "industry_risks", Get(data, "industry_risk", EmptyStr)),
        Get(data, "market_positioning", EmptyStr),
        Get(data, "cs_marketing_positioning", Get(data, "market_positioning", EmptyStr)),
        Get(data, "cs_financial_performance", financial_text_summary(data)),
        Get(data, "growth_outlook", EmptyStr),
        Get(data, "cs_grow_outlook", Get(data, "growth_outlook", EmptyStr)),
        Get(data, "valuation_recommendation", EmptyStr),
        Get(data, "cs_value_and_recommendation", Get(data, "valuation_recommendation", EmptyStr)),
        Get(data, "key_risks", EmptyStr),
        Get(data, "cs_key_risks", Get(data, "key_risks", EmptyStr)),
        Get(data, "company_insider", EmptyStr),
        Get(data, "cs_company_insider", Get(data, "company_insider", EmptyStr)),
        Get(data, "podcast_script", EmptyStr),
        Get(data, "video_script", EmptyStr) >>

\* One entry of text_mappings: the placeholder, its value and the bold
\* option (font size, alignment and colour are not modelled).
Item(placeholder, value, bold) == [placeholder |-> placeholder, value |-> value, bold |-> bold]

\* Lines 964-1025; today is the default of today_date.
fixed_mappings(data, bom_code, today) ==
    LET items(PM) ==
            <<  Item("company_name", Get(data, "company_name", EmptyStr), TRUE),
                Item("nse_symbol", bom_symbol(data), FALSE),
                Item("bom_code", bom_code, FALSE),
                Item("recommendation", rating_value(data), FALSE),
                Item("today_date", Get(data, "today_date", Str(today)), FALSE),
                Item("company_background", PM[1], FALSE),
                Item("Company_Background_h", GetOr(data, "company_background_h", "Company Background"), TRUE),
                Item("business_model", PM[2], FALSE),
                Item("Business_Model_Explanation_h", GetOr(data, "business_model_h", "Business Model"), TRUE),
                Item("management_analysis", PM[3], FALSE),
                Item("Management_Analysis_h", GetOr(data, "management_analysis_h", "Management Analysis"), TRUE),
                Item("industry_overview", PM[4], FALSE),
                Item("Industry_Overview_h", GetOr(data, "industry_overview_h", "Industry Overview"), TRUE),
                Item("industry_tailwinds", PM[5], FALSE),
                Item("Key_Industry_Tailwinds_h", GetOr(data, "industry_tailwinds_h", "Key Industry Tailwinds"), TRUE),
                Item("demand_drivers", PM[6], FALSE),
                Item("Demand_drivers_h", GetOr(data, "demand_drivers_h", "Demand Drivers"), TRUE),
                Item("industry_risk", PM[7], FALSE),
                Item("Industry_Risks_h", GetOr(data, "industry_risks_h", "Industry Risks"), TRUE),
                Item("market_positioning", PM[8], FALSE),
                Item("cs_market_positioning", PM[9], FALSE),
                Item("financial_performance", financial_text_summary(data), FALSE),
                Item("cs_financial_performance", PM[10], FALSE),
                Item("grow_outlook", PM[11], FALSE),
                Item("cs_grow_outlook", PM[12], FALSE),
                Item("valuation_recommendation", PM[13], FALSE),
                Item("cs_valuation_recommendation", PM[14], FALSE),
                Item("key_risks", PM[15], FALSE),
                Item("cs_key_risks", PM[16], FALSE),
                Item("company_insider", PM[17], FALSE),
                Item("cs_company_insider", PM[18], FALSE),
                Item("podcast_script", PM[19], FALSE),
                Item("video_script", PM[20], FALSE),
                Item("prize_chart", Str(<<" ">>), FALSE) >>
    IN  items([i \in 1..Len(long_form_args(data)) |->
                  parse_markdown_to_text(long_form_args(data)[i])])

\* A variant of dynamic_value that shows every value of a metric without
\* decimal places.
dynamic_value_whole(v, suffix) ==
    LET formatted(val, fval) ==
            IF IsNone(fval) THEN val
            ELSE IF suffix # "" THEN fmt_1f(fval)
            ELSE fmt_comma_0f(fval)
    IN  formatted(PyStr(v), py_float(ReplaceAll(PyStr(v), <<",">>, <<>>)))

\* Lines 1039-1049: the text of a dynamic financial placeholder.
dynamic_value(v, suffix) ==
    LET formatted(val, fval) ==
            IF IsNone(fval) THEN val
            ELSE IF suffix # "" \/ fval.num < 100 * fval.den THEN fmt_1f(fval)
            ELSE fmt_comma_0f(fval)
    IN  formatted(PyStr(v), py_float(ReplaceAll(PyStr(v), <<",">>, <<>>)))

\* Lines 1029-1050: one entry for every key prefix+suffix+"_"+year that
\* the (enriched) record holds, in the order of the three loops.
dynamic_mappings(data) ==
    LET financial_prefixes == <<"revenue", "sales", "ebitda", "pat", "pe", "pb">>
        years == <<"fy24", "fy25", "fy26", "fy27", "fy28", "ttm">>
        suffixes == <<"", "_growth", "_margin">>
        P(n) == financial_prefixes[((n - 1) \div 18) + 1]
        Y(n) == years[(((n - 1) \div 3) % 6) + 1]
        S(n) == suffixes[((n - 1) % 3) + 1]
        key(n) == P(n) \o S(n) \o "_" \o Y(n)
        all == [n \in 1..108 |-> [key |-> key(n), suffix |-> S(n)]]
        present == SelectSeq(all, LAMBDA c : c.key \in DOMAIN data)
    IN  [n \in 1..Len(present) |->
            Item(present[n].key,
                 Str(dynamic_value(Get(data, present[n].key, Str(<<"-">>)), present[n].suffix)),
                 FALSE)]

text_mappings(data, bom_code, today) ==
    fixed_mappings(data, bom_code, today) \o dynamic_mappings(data)

\* Lines 1052-1074 from item i on.  st is [shapes, results, raised].  A
\* falsy value is skipped without a trace.  A truthy value is substituted
\* and its outcome entered; len(value) in line 1070 raises TypeError when
\* the value is a number, after the entry was made.
RECURSIVE text_loop(_, _, _)
text_loop(items, i, st) ==
    IF i > Len(items) \/ st.raised THEN st
    ELSE LET item == items[i]
             after(r) ==
                 IF r.raised
                 THEN [shapes |-> r.shapes, results |-> st.results, raised |-> TRUE]
                 ELSE text_loop(items, i + 1,
                        [shapes |-> r.shapes,
                         results |-> Put(st.results, item.placeholder, r.count > 0),
                         raised |-> item.value.t # "str"])
         IN  IF ~Truthy(item.value) THEN text_loop(items, i + 1, st)
             ELSE after(find_and_replace_placeholder(st.shapes, Chars(item.placeholder),
                                                     item.value, item.bold))

(***************************************************************************)
(* Image placement                                                         *)
(***************************************************************************)

\* A rectangle in hundredths of an inch; a crop in thousandths of the edge.
Rect(l, t, w, h) == [left |-> l, top |-> t, width |-> w, height |-> h]

NoCrop == [left |-> 0, right |-> 0, top |-> 0, bottom |-> 0]

\* The class attribute CHART_POSITIONS, lines 43-72 (slide index 0-based).
CHART_POSITIONS ==
    [f \in {"chart_profit_loss", "chart_balance_sheet", "chart_cash_flow",
            "chart_ratio_analysis", "summary_table", "chart_custom", "price_chart"} |->
        CASE f = "chart_profit_loss" -> [slide |-> 8, position |-> Rect(16, 140, 480, 220)]
          [] f = "chart_balance_sheet" -> [slide |-> 8, position |-> Rect(515, 140, 480, 220)]
          [] f = "chart_cash_flow" -> [slide |-> 8, position |-> Rect(10, 430, 480, 220)]
          [] f = "chart_ratio_analysis" -> [slide |-> 8, position |-> Rect(510, 430, 480, 220)]
          [] f = "summary_table" -> [slide |-> 10, position |-> Rect(50, 75, 900, 450)]
          [] f = "chart_custom" -> [slide |-> 11, position |-> Rect(50, 75, 900, 450)]
          [] f = "price_chart" -> [slide |-> 10, position |-> Rect(550, 160, 430, 250)]]

\* The local table fixed_images of populate_from_data, lines 1107-1140, in
\* its order: the name entered in the result map, the record key that
\* gives the URL, the slide, the rectangle and the crop.
fixed_images ==
    <<  [name |-> "chart_custom", key |-> "chart_custom", slide |-> 10,
         pos |-> Rect(50, 75, 900, 450), crop |-> NoCrop],
        [name |-> "price_chart_slide2", key |-> "price_chart", slide |-> 1,
         pos |-> Rect(500, 75, 483, 200), crop |-> NoCrop],
        [name |-> "financial_table_slide2", key |-> "financial_table", slide |-> 1,
         pos |-> Rect(507, 281, 472, 206), crop |-> NoCrop],
        [name |-> "summary_table_slide10", key |-> "summary_table", slide |-> 9,
         pos |-> Rect(60, 68, 834, 480),
         crop |-> [left |-> 0, right |-> 30, top |-> 133, bottom |-> 89]] >>

\* url and url not in ("[null]", "null", None, "") (lines 1144, 122).
url_given(url) ==
    /\ Truthy(url)
    /\ ~(url.t = "str" /\ url.s \in {Chars("[null]"), Chars("null")})

\* download_image, lines 120-134: the bytes fetched, or None.  url[:60]
\* raises inside the try for a number; the network decides for a string:
\* outcome is "ok", "undecodable" (bytes that are no image) or "failed".
download_image(url, outcome) ==
    IF ~url_given(url) \/ url.t # "str" \/ outcome = "failed" THEN "None" ELSE outcome

\* add_image_to_slide, lines 517-554, on the document: a picture is added
\* unless the slide does not exist or add_picture raises.
add_image_to_slide(doc, info, image_data) ==
    IF info.slide >= doc.nslides \/ image_data # "ok"
    THEN [doc |-> doc, success |-> FALSE]
    ELSE [doc |-> [doc EXCEPT !.pictures =
                      Append(@, [field |-> info.name, slide |-> info.slide,
                                 pos |-> info.pos, crop |-> info.crop])],
          success |-> TRUE]

\* find_shape_with_placeholder, lines 136-157: the index of the first text
\* shape, in document order, whose run texts put end to end hold the token,
\* or 0 when there is none.
find_shape_with_placeholder(shapes, placeholder_name) ==
    LET hits == {i \in 1..Len(shapes) :
                    Contains(full_text(shapes[i]), placeholder_pattern(placeholder_name))}
    IN  IF hits = {} THEN 0 ELSE Least(hits)

\* text_frame.clear(): one paragraph without a run is left.
text_frame_clear(shape) == [shape EXCEPT !.paras = << <<>> >>]

\* A variant of replace_placeholder_with_image that clears the text of the
\* shape before it inserts the picture.
replace_placeholder_with_image_clears_first(doc, placeholder_name, image_data) ==
    LET found(i) ==
            IF i = 0 THEN [doc |-> doc, success |-> FALSE]
            ELSE IF image_data # "ok"
            THEN [doc |-> [doc EXCEPT !.shapes[i] = text_frame_clear(@)], success |-> FALSE]
            ELSE [doc |-> [doc EXCEPT !.pictures =
                              Append(@, [field |-> placeholder_name,
                                         slide |-> doc.shapes[i].slide,
                                         pos |-> doc.shapes[i].pos, crop |-> NoCrop]),
                                      !.shapes[i] = text_frame_clear(@)],
                  success |-> TRUE]
    IN  found(find_shape_with_placeholder(doc.shapes, placeholder_name))

\* replace_placeholder_with_image, lines 299-330, on a document whose text
\* shapes carry their slide and their rectangle: image_data.seek or
\* add_picture raises inside the try when the data are None or no image,
\* before anything is changed.
replace_placeholder_with_image(doc, placeholder_name, image_data) ==
    LET found(i) ==
            IF i = 0 \/ image_data # "ok" THEN [doc |-> doc, success |-> FALSE]
            ELSE [doc |-> [doc EXCEPT !.pictures =
                              Append(@, [field |-> placeholder_name,
                                         slide |-> doc.shapes[i].slide,
                                         pos |-> doc.shapes[i].pos, crop |-> NoCrop]),
                                      !.shapes[i] = text_frame_clear(@)],
                  success |-> TRUE]
    IN  found(find_shape_with_placeholder(doc.shapes, placeholder_name))

\* Lines 1142-1165 for one entry of the table: the document and the result
\* map afterwards.
place_fixed_image(info, data, net, st) ==
    LET url == GetOpt(data, info.key)
        image_data == download_image(url, net[info.name])
        placed == add_image_to_slide(st.doc, info, image_data)
    IN  IF url_given(url) /\ image_data # "None"
        THEN [doc |-> placed.doc, results |-> Put(st.results, info.name, placed.success)]
        ELSE [doc |-> st.doc, results |-> Put(st.results, info.name, FALSE)]

\* A variant of image_loop that gives up at the first image that fails.
RECURSIVE image_loop_stops(_, _, _, _, _)
image_loop_stops(images, i, data, net, st) ==
    IF i > Len(images) THEN st
    ELSE LET after(next) ==
                 IF next.results[images[i].name]
                 THEN image_loop_stops(images, i + 1, data, net, next)
                 ELSE next
         IN  after(place_fixed_image(images[i], data, net, st))

\* The loop of lines 1142-1165 from entry i on.
RECURSIVE image_loop(_, _, _, _, _)
image_loop(images, i, data, net, st) ==
    IF i > Len(images) THEN st
    ELSE image_loop(images, i + 1, data, net, place_fixed_image(images[i], data, net, st))

\* populate_from_data up to the image insertions, lines 686-1074, on the
\* record data and the document doc.  netBom is what the search of the BSE
\* code answers, today the date.  The result: the record and the document
\* afterwards, the result map so far and whether the call raised.
populate_text(data, doc, netBom, today) ==
    LET written(data1, text) ==
            [data |-> data1, doc |-> [doc EXCEPT !.shapes = text.shapes],
             results |-> text.results, raised |-> text.raised]
        enriched(data1) ==
            IF \/ ~is_valid_bom(data1) /\ fetch_bom_code_raises(bom_symbol(data1))
               \/ \E i \in 1..Len(long_form_args(data1)) :
                     parse_markdown_to_text_raises(long_form_args(data1)[i])
            THEN [data |-> data1, doc |-> doc, results |-> EmptyMap, raised |-> TRUE]
            ELSE written(data1,
                         text_loop(text_mappings(data1, bom_code_value(data1, netBom), today), 1,
                                   [shapes |-> doc.shapes, results |-> EmptyMap, raised |-> FALSE]))
    IN  enriched(enrich(data, 1))

\* The image insertions of populate_from_data, lines 1076-1167, after the
\* text part t; netImg is what each image download answers.
populate_images(t, netImg) ==
    LET imgs == image_loop(fixed_images, 1, t.data, netImg, [doc |-> t.doc, results |-> t.results])
    IN  IF t.raised THEN t
        ELSE [data |-> t.data, doc |-> imgs.doc, results |-> imgs.results, raised |-> FALSE]

\* populate_from_data, lines 678-1167: the record and the document
\* afterwards, the result map and whether the call raised instead of
\* returning the map.  net is what the network answers during the call.
populate_from_data(data, doc, net, today) ==
    populate_images(populate_text(data, doc, net.bom, today), net.img)

(***************************************************************************)
(* Templates and records the model runs on                                 *)
(***************************************************************************)

Run(str) == [text |-> Chars(str), bold |-> FALSE]

\* A text shape with one single-run paragraph per string.
TextShape(strs) == [paras |-> [i \in 1..Len(strs) |-> <<Run(strs[i])>>]]

\* A document: its text shapes in document order, its number of slides and
\* the pictures added to it.
Doc(shapes, nslides) == [loaded |-> TRUE, shapes |-> shapes, nslides |-> nslides, pictures |-> <<>>]

NoDoc == [loaded |-> FALSE, shapes |-> <<>>, nslides |-> 0, pictures |-> <<>>]

\* A template of twelve slides that holds tokens standing alone (one of
\* them split over two runs, one between blanks) and tokens inside text.
TemplateFull ==
    Doc(<<  TextShape(<<"{{company_name}}">>),
            TextShape(<<"NSE: {{nse_symbol}} BSE: {{bom_code}}">>),
            TextShape(<<"Rating: {{recommendation}}">>),
            [paras |-> << <<Run(" {{company_"), Run("background}} ")>> >>],
            TextShape(<<"{{revenue_fy24}}">>),
            TextShape(<<"Growth", "{{revenue_growth_fy25}}%">>),
            TextShape(<<"{{prize_chart}}">>),
            TextShape(<<"{{Company_Background_h}}">>) >>, 12)

\* A template of two slides that holds one of the tokens and the token of
\* the financial table.
TemplateShort ==
    Doc(<<TextShape(<<"Title">>), TextShape(<<"{{company_name}}", "">>),
          TextShape(<<"{{financial_table}}">>)>>, 2)

Templates == {TemplateFull, TemplateShort}

\* A well-formed record.
BaseRecord ==
    [k \in {"report_id", "company_name", "nse_symbol", "bom_code", "rating",
            "company_background", "financial_performance", "revenue_fy24",
            "revenue_fy25", "ebitda_fy24", "chart_custom"} |->
        CASE k = "report_id" -> Str(Chars("c49b2aa1-80eb"))
          [] k = "company_name" -> Str(Chars("Acme Corp"))
          [] k = "nse_symbol" -> Str(Chars("ACME"))
          [] k = "bom_code" -> Str(Chars("500295"))
          [] k = "rating" -> Str(Chars("BUY"))
          [] k = "company_background" -> Str(Chars("# About\n\nMakes **things**"))
          [] k = "financial_performance" -> Str(Chars("Stable: ok"))
          [] k = "revenue_fy24" -> Num(100)
          [] k = "revenue_fy25" -> Num(121)
          [] k = "ebitda_fy24" -> Num(30)
          [] k = "chart_custom" -> Str(Chars("http://c"))]

\* The record of the end-to-end scenario.
AcmeRecord ==
    [k \in {"company_name", "revenue_fy24", "revenue_fy25"} |->
        CASE k = "company_name" -> Str(Chars("Acme Corp"))
          [] k = "revenue_fy24" -> Num(100)
          [] k = "revenue_fy25" -> Num(121)]

\* A key taken out of a record.
Absent == [t |-> "absent", n |-> 0, s |-> <<>>]

\* The changes made to the base record: a key and the value it gets.
Variations ==
    {   <<"report_id", Absent>>, <<"report_id", Null>>, <<"report_id", Num(12345)>>,
        <<"company_name", Absent>>, <<"company_name", Num(5)>>,
        <<"company_name", Str(Chars("A *B* {{rating}}"))>>,
        <<"company_name", Str(Chars("A {{recommendation}}"))>>,
        <<"nse_symbol", Absent>>, <<"nse_symbol", Num(5)>>,
        <<"nse_symbol", Str(Chars("wipro"))>>,
        <<"symbol", Str(Chars("SYM"))>>,
        <<"bom_code", Absent>>, <<"bom_code", Num(500295)>>,
        <<"bom_code", Str(Chars("n/a"))>>,
        <<"rating", Absent>>, <<"rating", Num(1)>>,
        <<"rating", Str(Chars(" "))>>,
        <<"company_background", Absent>>, <<"company_background", Null>>,
        <<"company_background", Num(3)>>, <<"company_background", Str(Chars(" \n "))>>,
        <<"business_model", Num(0)>>,
        <<"financial_performance", Absent>>, <<"financial_performance", Num(7)>>,
        <<"financial_performance", Str(Chars("|A|B|\n|---|---|\n|1|2|"))>>,
        <<"financial_performance", Str(Chars("|||"))>>,
        <<"revenue_fy24", Absent>>, <<"revenue_fy24", Null>>,
        <<"revenue_fy24", Str(Chars("1,200"))>>, <<"revenue_fy24", Str(Chars("abc"))>>,
        <<"revenue_fy24", Str(Chars("-"))>>, <<"revenue_fy24", Num(0)>>,
        <<"revenue_fy25", Absent>>,
        <<"ebitda_fy24", Str(Chars("x"))>>,
        <<"revenue_fy23", Num(80)>>,
        <<"chart_custom", Absent>>, <<"chart_custom", Null>>,
        <<"chart_custom", Str(<<>>)>>, <<"chart_custom", Str(Chars("null"))>>,
        <<"chart_custom", Num(5)>>,
        <<"price_chart", Str(Chars("http://p"))>>, <<"price_chart", Str(Chars("[null]"))>>,
        <<"financial_table", Str(Chars("http://f"))>>,
        <<"summary_table", Str(Chars("http://s"))>>,
        <<"chart_profit_loss", Str(Chars("http://pl"))>>,
        <<"today_date", Str(Chars("2026-02-07"))>> }

\* How many keys of the base record a record of the model may change.
MaxVaried == 1

\* The base record with the changes vs made.
Vary(vs) ==
    LET keys == {v[1] : v \in vs}
        gone == {v[1] : v \in {w \in vs : w[2] = Absent}}
        val(k) == IF k \in keys THEN (CHOOSE v \in vs : v[1] = k)[2] ELSE BaseRecord[k]
    IN  [k \in (DOMAIN BaseRecord \cup keys) \ gone |-> val(k)]

\* The sets of at most n changes, no key changed twice.
RECURSIVE VarySets(_)
VarySets(n) ==
    IF n = 0 THEN {{}}
    ELSE LET prev == VarySets(n - 1)
         IN  prev \cup {w \cup {v} : <<w, v>> \in
                            {x \in prev \X Variations : \A a \in x[1] : a[1] # x[2][1]}}

\* The records of the model: the empty record, the record of the
\* end-to-end scenario and the base record with at most MaxVaried keys
\* changed.
Records == {EmptyMap, AcmeRecord} \cup {Vary(vs) : vs \in VarySets(MaxVaried)}

(***************************************************************************)
(* The server and its generation passes                                    *)
(***************************************************************************)

\* The requests in flight at the same time.
Passes == {1, 2}

\* The seconds of the clock the model lets pass.
MaxTime == 1

VARIABLES
    template,     \* the template file: a document, or NoDoc when missing
    now,          \* the clock, in seconds
    files,        \* the output directory: path -> document saved there
    writes,       \* history: who saved to which path
    via,          \* per pass: "http" (POST /generate-ppt), "direct", or "off"
    pc,           \* per pass: where generate_report_ppt stands
    request,      \* per pass: the record as the caller passed it
    data,         \* per pass: the caller's record, as it is now
    prs,          \* per pass: the generator's document
    results,      \* per pass: the result map of populate_from_data
    fetched,      \* per pass: what each image download of the pass answered
    output_path,  \* per pass: the path computed for the output
    exc,          \* per pass: the exception that ended the pass, or ""
    response,     \* per pass: what the caller got back
    call          \* a call of find_and_replace_placeholder on its own

vars == <<template, now, files, writes, via, pc, request, data, prs, results,
          fetched, output_path, exc, response, call>>

NoResponse == [status |-> 0, body |-> NoDoc]

\* What the callers see when a pass ends.  An HTTP caller gets the status
\* of lines 95-99, 127-131, 145-150 or 152-163; a direct caller gets the
\* path back (status 0) or the exception.
Answer(p, status, body) == [response EXCEPT ![p] = [status |-> status, body |-> body]]

\* Lines 1187-1194: the output file's name.
report_id_clean(report_id) ==
    IF Len(report_id) > 8 THEN Slice(report_id, 1, 8) ELSE report_id

output_name(d, timestamp) ==
    LET report_id == Get(d, "report_id", Str(Chars("unknown")))
        symbol == Get(d, "symbol", Get(d, "nse_symbol", Str(Chars("report"))))
    IN  PyStr(symbol) \o <<"_">> \o report_id_clean(report_id.s) \o <<"_">>
          \o timestamp \o Chars(".pptx")

\* A pass ends with the exception e: the HTTP handler answers 500.
Raise(p, e) ==
    /\ exc' = [exc EXCEPT ![p] = e]
    /\ pc' = [pc EXCEPT ![p] = "done"]
    /\ response' = Answer(p, IF via[p] = "http" THEN 500 ELSE 0, NoDoc)

\* The request is received (api_server lines 93-131) and generate_report_ppt
\* starts (lines 1187-1194).  A direct caller (test_generation.py) skips the
\* validation of the handler.  len(report_id) raises TypeError when the
\* report id is a number or null.
Start(p) ==
    /\ via[p] # "off"
    /\ pc[p] = "idle"
    /\ LET d == data[p]
           rid == Get(d, "report_id", Str(Chars("unknown")))
       IN  IF via[p] = "http" /\ (DOMAIN d = {} \/ ~Truthy(GetOpt(d, "report_id")))
           THEN /\ pc' = [pc EXCEPT ![p] = "done"]
                /\ response' = Answer(p, 400, NoDoc)
                /\ UNCHANGED <<exc, output_path>>
           ELSE IF rid.t # "str"
           THEN /\ Raise(p, "TypeError")
                /\ UNCHANGED output_path
           ELSE /\ pc' = [pc EXCEPT ![p] = "named"]
                /\ output_path' = [output_path EXCEPT ![p] = output_name(d, IntToStr(now))]
                /\ UNCHANGED <<exc, response>>
    /\ UNCHANGED <<template, now, files, writes, via, request, data, prs, results,
                   fetched, call>>

\* A variant of LoadTemplate that does not look whether the file exists.
LoadTemplateUnchecked(p) ==
    /\ pc[p] = "named"
    /\ prs' = [prs EXCEPT ![p] = template]
    /\ pc' = [pc EXCEPT ![p] = "loaded"]
    /\ UNCHANGED <<template, now, files, writes, via, request, data, results, fetched,
                   output_path, exc, response, call>>

\* load_template, lines 79-84.
LoadTemplate(p) ==
    /\ pc[p] = "named"
    /\ IF ~template.loaded
       THEN /\ Raise(p, "FileNotFoundError")
            /\ UNCHANGED prs
       ELSE /\ prs' = [prs EXCEPT ![p] = template]
            /\ pc' = [pc EXCEPT ![p] = "loaded"]
            /\ UNCHANGED <<exc, response>>
    /\ UNCHANGED <<template, now, files, writes, via, request, data, results, fetched,
                   output_path, call>>

ImageOutcomes == {"ok", "undecodable", "failed"}

\* What the network can answer during one call of populate_from_data on
\* the record d: an answer matters only where the code asks.
BomAnswers(d) == IF is_valid_bom(d) THEN {<<" ">>} ELSE {<<" ">>, Chars("543210")}

ImageAnswers(d) ==
    {f \in [{fixed_images[i].name : i \in 1..Len(fixed_images)} -> ImageOutcomes] :
        \A i \in 1..Len(fixed_images) :
            ~url_given(GetOpt(d, fixed_images[i].key)) => f[fixed_images[i].name] = "failed"}

NetAnswers(d) == [bom : BomAnswers(d), img : ImageAnswers(d)]

\* The date the pass reads from the clock.
Today == Chars("2026-11-03")

\* No download was made yet.
NoFetch == [k \in {} |-> "failed"]

\* generator.populate_from_data(data), line 1199, up to the end of the loop
\* over the text fields (lines 686-1074).  The part is evaluated once for
\* each answer of the network.
PopulateText(p) ==
    /\ pc[p] = "loaded"
    /\ \E netBom \in BomAnswers(data[p]) :
       \E t \in {populate_text(data[p], prs[p], netBom, Today)} :
          /\ data' = [data EXCEPT ![p] = t.data]
          /\ prs' = [prs EXCEPT ![p] = t.doc]
          /\ results' = [results EXCEPT ![p] = t.results]
          /\ IF t.raised
             THEN Raise(p, "TypeError")
             ELSE /\ pc' = [pc EXCEPT ![p] = "texts"]
                  /\ UNCHANGED <<exc, response>>
    /\ UNCHANGED <<template, now, files, writes, via, request, fetched, output_path, call>>

\* The rest of populate_from_data: the image insertions, lines 1076-1167.
PopulateImages(p) ==
    /\ pc[p] = "texts"
    /\ \E netImg \in ImageAnswers(data[p]) :
       \E r \in {populate_images([data |-> data[p], doc |-> prs[p],
                                  results |-> results[p], raised |-> FALSE], netImg)} :
          /\ prs' = [prs EXCEPT ![p] = r.doc]
          /\ results' = [results EXCEPT ![p] = r.results]
          /\ fetched' = [fetched EXCEPT ![p] = netImg]
    /\ pc' = [pc EXCEPT ![p] = "populated"]
    /\ UNCHANGED <<template, now, files, writes, via, request, data, output_path, exc,
                   response, call>>

\* A variant of Save that may write as soon as the template is loaded.
SaveEarly(p) ==
    /\ pc[p] \in {"loaded", "texts", "populated"}
    /\ files' = Put(files, output_path[p], prs[p])
    /\ writes' = writes \cup {[by |-> p, path |-> output_path[p]]}
    /\ pc' = [pc EXCEPT ![p] = "saved"]
    /\ UNCHANGED <<template, now, via, request, data, prs, results, fetched, output_path,
                   exc, response, call>>

\* generator.save(output_path), lines 1169-1177.
Save(p) ==
    /\ pc[p] = "populated"
    /\ files' = Put(files, output_path[p], prs[p])
    /\ writes' = writes \cup {[by |-> p, path |-> output_path[p]]}
    /\ pc' = [pc EXCEPT ![p] = "saved"]
    /\ UNCHANGED <<template, now, via, request, data, prs, results, fetched, output_path,
                   exc, response, call>>

\* generate_report_ppt returns the path; the handler sends the file that is
\* at that path (api_server lines 141-150).
Finish(p) ==
    /\ pc[p] = "saved"
    /\ pc' = [pc EXCEPT ![p] = "done"]
    /\ response' = Answer(p, IF via[p] = "http" THEN 200 ELSE 0, files[output_path[p]])
    /\ UNCHANGED <<template, now, files, writes, via, request, data, prs, results, fetched,
                   output_path, exc, call>>

\* A second passes.  The clock is read only where a pass names its output
\* (line 1189), so its advance is modelled while a pass has yet to read it.
Tick ==
    /\ now < MaxTime
    /\ \E p \in Passes : via[p] # "off" /\ pc[p] = "idle"
    /\ now' = now + 1
    /\ UNCHANGED <<template, files, writes, via, pc, request, data, prs, results, fetched,
                   output_path, exc, response, call>>

Next ==
    \/ \E p \in Passes : Start(p)
    \/ \E p \in Passes : LoadTemplate(p)
    \/ \E p \in Passes : PopulateText(p)
    \/ \E p \in Passes : PopulateImages(p)
    \/ \E p \in Passes : Save(p)
    \/ \E p \in Passes : Finish(p)
    \/ Tick

\* No call of the substitution engine on its own.
NoCall == [state |-> "none"]

\* What every initial state has in common.
InitCommon ==
    /\ now = 0
    /\ files = EmptyMap
    /\ writes = {}
    /\ pc = [p \in Passes |-> "idle"]
    /\ data = request
    /\ prs = [p \in Passes |-> NoDoc]
    /\ results = [p \in Passes |-> EmptyMap]
    /\ fetched = [p \in Passes |-> NoFetch]
    /\ output_path = [p \in Passes |-> <<>>]
    /\ exc = [p \in Passes |-> ""]
    /\ response = [p \in Passes |-> NoResponse]

\* One request at a time: any record, any template or none, either caller.
Init ==
    /\ template \in Templates \cup {NoDoc}
    /\ via \in {[p \in Passes |-> IF p = 1 THEN v ELSE "off"] : v \in {"http", "direct"}}
    /\ request \in {[p \in Passes |-> IF p = 1 THEN r ELSE EmptyMap] : r \in Records}
    /\ call = NoCall
    /\ InitCommon

Spec == Init /\ [][Next]_vars

(***************************************************************************)
(* Two requests at the same time                                           *)
(***************************************************************************)

\* The records of two requests the server handles at once (it serves each
\* request on a thread of its own).
ConcRecords ==
    {BaseRecord,
     Vary({<<"company_name", Str(Chars("A *B* {{rating}}"))>>}),
     Vary({<<"nse_symbol", Str(Chars("wipro"))>>})}

InitConc ==
    /\ template = TemplateFull
    /\ via = [p \in Passes |-> "http"]
    /\ request \in [Passes -> ConcRecords]
    /\ call = NoCall
    /\ InitCommon

SpecConc == InitConc /\ [][Next]_vars

(***************************************************************************)
(* The substitution engine on its own                                      *)
(***************************************************************************)

\* The longest value the model substitutes.
MaxValueLen == 3

\* The characters of the values: a letter, the emphasis marker, a blank,
\* a colon and a line break.
ValueChars == {"a", "*", " ", ":", "\n"}

RECURSIVE StringsUpTo(_)
StringsUpTo(n) ==
    IF n = 0 THEN {<<>>}
    ELSE StringsUpTo(n - 1)
           \cup {Append(s, c) : s \in {t \in StringsUpTo(n - 1) : Len(t) = n - 1},
                                c \in ValueChars}

TextValues == StringsUpTo(MaxValueLen)

\* A shape with text around the token.
LabelShape == TextShape(<<"Label: {{x}}">>)

\* Shapes that hold the token {{x}} alone (in one run, in two runs, in two
\* paragraphs, between blanks, with blanks inside the braces), shapes that
\* hold it inside text, once or several times or over the end of a
\* paragraph, and a shape that does not hold it.
TextShapes ==
    {   TextShape(<<"{{x}}">>),
        TextShape(<<" {{x}}\n">>),
        TextShape(<<"{{x}}", "">>),
        TextShape(<<"old", "{{x}}", "older">>),
        [paras |-> << <<Run("{{"), Run("x}}")>> >>],
        LabelShape,
        TextShape(<<"Title", "Label: {{x}}">>),
        TextShape(<<"{{x}} and {{x}}">>),
        [paras |-> << <<Run("Label: {{"), Run("x}}")>> >>],
        TextShape(<<"Label: {x}">>),
        TextShape(<<"{{ x }}">>),
        TextShape(<<"{{", "x}}">>),
        TextShape(<<"a {{x}}", "no", "{{x}}{{x}} b">>),
        TextShape(<<"a {{x", "}} b">>) }

\* find_and_replace_placeholder('x', value, bold=...) on a document of one
\* text shape, lines 332-381.
Replace ==
    /\ call.state = "ready"
    /\ \E r \in {find_and_replace_placeholder(<<call.shape>>, <<"x">>, Str(call.value),
                                              call.bold)} :
          call' = [call EXCEPT !.state = "done", !.out = r.shapes[1], !.count = r.count]
    /\ UNCHANGED <<template, now, files, writes, via, pc, request, data, prs, results,
                   fetched, output_path, exc, response>>

NextText == Replace

InitText ==
    /\ template = NoDoc
    /\ via = [p \in Passes |-> "off"]
    /\ request = [p \in Passes |-> EmptyMap]
    /\ call \in [state : {"ready"}, shape : TextShapes, value : TextValues,
                 bold : BOOLEAN, out : {TextShape(<<>>)}, count : {0}]
    /\ InitCommon

SpecText == InitText /\ [][NextText]_vars

(***************************************************************************)
(* The renderer on its own                                                 *)
(***************************************************************************)

\* The longest text around a marked segment of a value.
MaxAroundLen == 1

\* Marked segments.
Cores == {Chars("**a**"), Chars("**a: a**")}

\* Values with a marked segment, with two, and with markers gone wrong.
MarkedValues ==
    {p \o c \o q : p \in StringsUpTo(MaxAroundLen), q \in StringsUpTo(MaxAroundLen),
                    c \in Cores}
      \cup {Chars("**a**") \o m \o Chars("**a a**") : m \in StringsUpTo(MaxAroundLen)}
      \cup {Chars("****"), Chars("**a\na**"), Chars("a: **a** a")}

\* The values given to the renderer: strings, null and a number.
RenderValues ==
    {Str(v) : v \in TextValues \cup MarkedValues} \cup {Null, Num(5)}

\* The shapes given to the renderer: without a paragraph, with a paragraph
\* without a run, with one paragraph and with three, one run of them bold.
RenderShapes ==
    {   [paras |-> <<>>],
        [paras |-> << <<>> >>],
        TextShape(<<"old">>),
        [paras |-> << <<Run("old")>>, <<[text |-> Chars("bold"), bold |-> TRUE], Run("old")>>,
                      <<Run("older")>> >>] }

\* replace_shape_text(shape, value, bold=...), lines 159-224, called on a
\* shape and then once more on the shape it left.
Render ==
    /\ call.state \in {"ready", "once"}
    /\ \E r \in {replace_shape_text_on(IF call.state = "ready" THEN call.shape ELSE call.out,
                                        call.value, call.bold)} :
          call' = [call EXCEPT
                      !.state = IF r.raised THEN "raised"
                                ELSE IF call.state = "ready" THEN "once" ELSE "twice",
                      !.out = r.shape,
                      !.first = IF call.state = "ready" THEN r.shape ELSE @]
    /\ UNCHANGED <<template, now, files, writes, via, pc, request, data, prs, results,
                   fetched, output_path, exc, response>>

NextRender == Render

InitRender ==
    /\ template = NoDoc
    /\ via = [p \in Passes |-> "off"]
    /\ request = [p \in Passes |-> EmptyMap]
    /\ call \in [state : {"ready"}, shape : RenderShapes, value : RenderValues,
                 bold : BOOLEAN, first : {TextShape(<<>>)}, out : {TextShape(<<>>)}]
    /\ InitCommon

SpecRender == InitRender /\ [][NextRender]_vars

(***************************************************************************)
(* The financial table on its own                                          *)
(***************************************************************************)

\* The values of a field of a year: none, null, strings that are no
\* number, a number written with a comma, and numbers.
GridValues ==
    {Absent, Null, Str(<<>>), Str(Chars("-")), Str(Chars("abc")), Str(Chars("nan")),
     Str(Chars("1,200")), Num(100), Num(110), Num(0), Num(-50)}

\* The fields the records of the table differ in.
GridKeys == {"revenue_fy23", "revenue_fy24", "revenue_fy25"}

\* The record with the values vals for the keys of GridKeys and the
\* values more for other keys.
GridRecord(vals, more) ==
    LET all == [k \in GridKeys \cup DOMAIN more |->
                   IF k \in GridKeys THEN vals[k] ELSE more[k]]
    IN  [k \in {x \in DOMAIN all : all[x] # Absent} |-> all[k]]

\* What the records hold besides: nothing, fields of other metrics, a
\* text summary, a markdown table.
GridMore ==
    {   EmptyMap,
        [k \in {"ebitda_fy24", "pat_fy24", "pe_fy24", "pe_fy25"} |->
            CASE k = "ebitda_fy24" -> Num(30)
              [] k = "pat_fy24" -> Str(Chars("-12.5"))
              [] k = "pe_fy24" -> Str(Chars("18.25"))
              [] k = "pe_fy25" -> Num(150)],
        [k \in {"financial_performance"} |-> Str(Chars("Stable: ok"))],
        [k \in {"financial_performance"} |-> Str(Chars("|A|B|\n|---|---|\n| 1 |2|"))] }

GridRecords == {GridRecord(vals, more) : vals \in [GridKeys -> GridValues], more \in GridMore}

\* populate_from_data up to the table and the placeholders of the fields
\* of the years, lines 686-862 and 1027-1050: the derived keys are
\* written, the table is built and the placeholders are listed.
BuildTable ==
    /\ call.state = "ready"
    /\ \E d \in {enrich(call.data, 1)} :
          call' = [state |-> "done", data |-> call.data, enriched |-> d,
                   grid |-> table_data(d), dynamic |-> dynamic_mappings(d)]
    /\ UNCHANGED <<template, now, files, writes, via, pc, request, data, prs, results,
                   fetched, output_path, exc, response>>

NextGrid == BuildTable

InitGrid ==
    /\ template = NoDoc
    /\ via = [p \in Passes |-> "off"]
    /\ request = [p \in Passes |-> EmptyMap]
    /\ call \in [state : {"ready"}, data : GridRecords, enriched : {EmptyMap},
                 grid : {<<>>}, dynamic : {<<>>}]
    /\ InitCommon

SpecGrid == InitGrid /\ [][NextGrid]_vars

(***************************************************************************)
(* The text normalizer on its own                                          *)
(***************************************************************************)

\* The pieces the markdown texts are made of, and how many pieces a text
\* may have.
MarkdownPieces ==
    {Chars("x"), Chars(" "), Chars("\n"), Chars("\n\n\n"), Chars("\n \n\t\n"),
     Chars("**b**"), Chars("*i*"), Chars("__B__"), Chars("_j_")}

MaxPieces == 3

RECURSIVE MarkdownTexts(_)
MarkdownTexts(n) ==
    IF n = 0 THEN {<<>>}
    ELSE LET shorter == MarkdownTexts(n - 1)
         IN  shorter \cup {t \o p : t \in shorter, p \in MarkdownPieces}

\* The arguments of parse_markdown_to_text: null and the texts.
MarkdownValues == {Null} \cup {Str(t) : t \in MarkdownTexts(MaxPieces)}

\* A call of parse_markdown_to_text, lines 86-118.
Normalize ==
    /\ call.state = "ready"
    /\ call' = [state |-> "done", markdown_text |-> call.markdown_text,
                out |-> parse_markdown_to_text(call.markdown_text)]
    /\ UNCHANGED <<template, now, files, writes, via, pc, request, data, prs, results,
                   fetched, output_path, exc, response>>

NextNorm == Normalize

InitNorm ==
    /\ template = NoDoc
    /\ via = [p \in Passes |-> "off"]
    /\ request = [p \in Passes |-> EmptyMap]
    /\ call \in [state : {"ready"}, markdown_text : MarkdownValues, out : {Str(<<>>)}]
    /\ InitCommon

SpecNorm == InitNorm /\ [][NextNorm]_vars

(***************************************************************************)
(* The parser of pipe tables on its own                                    *)
(***************************************************************************)

\* The cells of the tables, the empty cell among them, and the number of
\* columns of a table.
TableCells == {Chars("a"), Chars("b c"), <<>>}

TableWidth == 2

\* A row written with outer pipes and a blank on both sides of a cell.
RowText(cells) ==
    <<"|">> \o Concat([i \in 1..Len(cells) |-> <<" ">> \o cells[i] \o <<" ", "|">>])

\* The line that separates the header from the rows.
SeparatorText(n) == <<"|">> \o Concat([i \in 1..n |-> <<"-", "-", "-", "|">>])

\* A table of a header and the rows, as markdown.
TableText(grid) ==
    Join(<<RowText(grid[1]), SeparatorText(Len(grid[1]))>>
           \o [i \in 1..(Len(grid) - 1) |-> RowText(grid[i + 1])], <<NL>>)

\* The rectangular tables of a header and one row.
TableGrids == [1..2 -> [1..TableWidth -> TableCells]]

\* A call of parse_markdown_table_to_data, lines 383-413.
ParseTable ==
    /\ call.state = "ready"
    /\ call' = [state |-> "done", cells |-> call.cells,
                table_data |-> parse_markdown_table_to_data(TableText(call.cells))]
    /\ UNCHANGED <<template, now, files, writes, via, pc, request, data, prs, results,
                   fetched, output_path, exc, response>>

NextTable == ParseTable

InitTable ==
    /\ template = NoDoc
    /\ via = [p \in Passes |-> "off"]
    /\ request = [p \in Passes |-> EmptyMap]
    /\ call \in [state : {"ready"}, cells : TableGrids, table_data : {<<>>}]
    /\ InitCommon

SpecTable == InitTable /\ [][NextTable]_vars

(***************************************************************************)
(* The replacement of a token by a picture on its own                      *)
(***************************************************************************)

\* The paragraphs of the shapes: the token alone, in text, in two runs,
\* over the end of a paragraph, and no token.
ImageParas ==
    {   TextShape(<<"{{x}}">>).paras,
        TextShape(<<"see {{x}} here", "more">>).paras,
        << <<Run("{{"), Run("x}}")>> >>,
        TextShape(<<"a {{x", "}} b">>).paras,
        TextShape(<<"Title">>).paras }

\* How many text shapes a document has at most.
MaxImageShapes == 2

\* The text shape number i of a document: its slide and its rectangle
\* differ from shape to shape.
ImageShape(paras, i) ==
    [paras |-> paras, slide |-> i - 1, pos |-> Rect(100 * i, 50 * i, 300 + i, 200 + i)]

ImageDocs ==
    {Doc([i \in 1..n |-> ImageShape(ps[i], i)], MaxImageShapes) :
        <<n, ps>> \in {x \in (0..MaxImageShapes) \X UNION {[1..m -> ImageParas] : m \in 0..MaxImageShapes} :
                          Len(x[2]) = x[1]}}

\* What the caller passes as image data: an image, bytes that are no
\* image, or None.
ImageData == {"ok", "undecodable", "None"}

\* A call of replace_placeholder_with_image('x', image_data).
ReplaceWithImage ==
    /\ call.state = "ready"
    /\ \E r \in {replace_placeholder_with_image(call.doc, <<"x">>, call.image_data)} :
          call' = [call EXCEPT !.state = "done", !.out = r.doc, !.success = r.success]
    /\ UNCHANGED <<template, now, files, writes, via, pc, request, data, prs, results,
                   fetched, output_path, exc, response>>

NextImage == ReplaceWithImage

InitImage ==
    /\ template = NoDoc
    /\ via = [p \in Passes |-> "off"]
    /\ request = [p \in Passes |-> EmptyMap]
    /\ call \in [state : {"ready"}, doc : ImageDocs, image_data : ImageData,
                 out : {NoDoc}, success : {FALSE}]
    /\ InitCommon

SpecImage == InitImage /\ [][NextImage]_vars

(***************************************************************************)
(* Properties of a generation pass                                         *)
(***************************************************************************)

\* populate_from_data has returned its result map in pass p.
Returned(p) ==
    \/ pc[p] \in {"populated", "saved"}
    \/ pc[p] = "done" /\ exc[p] = "" /\ response[p].status # 400

\* Pass p has saved a document.
Wrote(p) == \E w \in writes : w.by = p

\* The entry of field k in the result map m, or the mark that it has none.
Entry(m, k) == IF k \in DOMAIN m THEN <<"entry", m[k]>> ELSE <<"none">>

\* The numeric fields of the base record and the fields of the slot table.
GridFields == {"revenue_fy24", "revenue_fy25", "ebitda_fy24"}

ImageIndex == 1..Len(fixed_images)

\* C1: every field-level failure is recorded as false in the result map.
\* Stated for the failures of the numeric fields and of the markdown
\* table: once populate_from_data has returned, a numeric field that is
\* missing or does not parse, and a table that holds no row, each have an
\* entry false under the field's name.
C1_FieldFailuresRecorded ==
    \A p \in Passes :
        Returned(p) =>
            /\ \A k \in GridFields :
                  IsNone(p_float(GetOpt(request[p], k))) =>
                      Entry(results[p], k) = <<"entry", FALSE>>
            /\ GetOpt(request[p], "financial_performance") = Str(Chars("|||")) =>
                  Entry(results[p], "financial_performance") = <<"entry", FALSE>>

\* C2: on a loadable template generate_report_ppt never raises, whatever
\* strings, numbers and nulls the record holds and whatever keys it lacks.
C2_NeverRaises ==
    \A p \in Passes : template.loaded => exc[p] = ""

\* C3: the caller's record has, at every point of a pass, exactly the keys
\* and values the caller passed.
C3_RecordUnchanged ==
    \A p \in Passes : data[p] = request[p]

\* C4: a pass has written its document only after populate_from_data went
\* through every text and image field (the image downloads were made and
\* every image field has its entry), the document written is the populated
\* one, and a pass that raised, or has not reached save, has written
\* nothing and left no file at its output path.
C4_SaveAfterPopulate ==
    \A p \in Passes :
        /\ Wrote(p) =>
              /\ pc[p] \in {"saved", "done"}
              /\ exc[p] = ""
              /\ fetched[p] # NoFetch
              /\ \A i \in ImageIndex : fixed_images[i].name \in DOMAIN results[p]
              /\ output_path[p] \in DOMAIN files
              /\ files[output_path[p]] = prs[p]
        /\ (exc[p] # "" \/ pc[p] \notin {"saved", "done"}) =>
              /\ ~Wrote(p)
              /\ output_path[p] \notin DOMAIN files

\* A pass has saved its populated document and returned.
C4_Witness ==
    \E p \in Passes :
        /\ pc[p] = "done"
        /\ Wrote(p)
        /\ \E k \in DOMAIN results[p] : results[p][k]

\* C6: with the template file missing no pass opens a document or writes a
\* file; a pass that reaches load_template ends with FileNotFoundError, and
\* an HTTP request that passed the validation of the handler is answered
\* with status 500 and no file.
C6_MissingTemplateIsFatal ==
    ~template.loaded =>
        /\ files = EmptyMap
        /\ writes = {}
        /\ \A p \in Passes :
              /\ prs[p] = NoDoc
              /\ pc[p] \in {"idle", "named", "done"}
              /\ (pc[p] = "done" /\ output_path[p] # <<>>) => exc[p] = "FileNotFoundError"
              /\ (pc[p] = "done" /\ via[p] = "http" /\ Truthy(GetOpt(request[p], "report_id"))) =>
                    response[p] = [status |-> 500, body |-> NoDoc]

\* An HTTP request met the missing template and was answered with 500.
C6_Witness ==
    \E p \in Passes :
        /\ ~template.loaded
        /\ via[p] = "http"
        /\ pc[p] = "done"
        /\ exc[p] = "FileNotFoundError"
        /\ response[p].status = 500

\* Whether the image field of entry i fails in pass p: no usable URL, a
\* failed download, bytes that are no image, or a slide that does not exist.
ImageFails(p, i) ==
    LET info == fixed_images[i]
        url == GetOpt(data[p], info.key)
    IN  \/ ~url_given(url)
        \/ url.t # "str"
        \/ fetched[p][info.name] # "ok"
        \/ info.slide >= template.nslides

PicturesOf(p, i) ==
    {n \in 1..Len(prs[p].pictures) : prs[p].pictures[n].field = fixed_images[i].name}

\* C7 in a state: once populate_from_data has returned, an image field that
\* fails has no picture and the entry false; every other image field has
\* the outcome that its own URL, download and slide give it: a field that
\* does not fail has the entry true and one picture at its slide and
\* rectangle.
C7_EachImageOnItsOwn ==
    \A p \in Passes :
        Returned(p) =>
            \A i \in ImageIndex :
                /\ Entry(results[p], fixed_images[i].name) = <<"entry", ~ImageFails(p, i)>>
                /\ ImageFails(p, i) => PicturesOf(p, i) = {}
                /\ ~ImageFails(p, i) =>
                      /\ Cardinality(PicturesOf(p, i)) = 1
                      /\ \A n \in PicturesOf(p, i) :
                            /\ prs[p].pictures[n].slide = fixed_images[i].slide
                            /\ prs[p].pictures[n].pos = fixed_images[i].pos

\* C7 in a step: the image insertions leave every text shape and every
\* entry of a text field as the text part of the pass made them.
C7_TextUntouched ==
    \A p \in Passes :
        (pc[p] = "texts" /\ pc'[p] = "populated") =>
            /\ prs'[p].shapes = prs[p].shapes
            /\ \A k \in DOMAIN results[p] : Entry(results'[p], k) = Entry(results[p], k)

\* C7: a failing image field gets no picture and the entry false, and no
\* other text or image field is processed differently because of it.
C7_ImageFailureIsolated == [](C7_EachImageOnItsOwn) /\ [][C7_TextUntouched]_vars

\* One image field failed although it had a URL, another was placed, and a
\* text field was substituted.
C7_Witness ==
    \E p \in Passes :
        /\ Returned(p)
        /\ \E i, j \in ImageIndex :
              /\ url_given(GetOpt(data[p], fixed_images[i].key))
              /\ ImageFails(p, i)
              /\ ~ImageFails(p, j)
        /\ Entry(results[p], "company_name") = <<"entry", TRUE>>

\* C8: every image field of CHART_POSITIONS to which the record gives a URL
\* has its outcome in the result map under its name, and when the outcome
\* is success its picture lies at the slide and rectangle of that table.
C8_ConfiguredImagesPlaced ==
    \A p \in Passes :
        Returned(p) =>
            \A f \in DOMAIN CHART_POSITIONS :
                url_given(GetOpt(request[p], f)) =>
                    /\ f \in DOMAIN results[p]
                    /\ results[p][f] =>
                          \E n \in 1..Len(prs[p].pictures) :
                              /\ prs[p].pictures[n].field = f
                              /\ prs[p].pictures[n].slide = CHART_POSITIONS[f].slide
                              /\ prs[p].pictures[n].pos = CHART_POSITIONS[f].position

\* Whether the value of a field was empty or null, so that the field was
\* not attempted, and whether the field was attempted and failed.
NotAttemptedText(p, k) == ~Truthy(GetOpt(request[p], k))

NotAttemptedImage(p, i) == ~url_given(GetOpt(request[p], fixed_images[i].key))

\* C9: a field with an empty or null value and a field that was attempted
\* and failed both have an entry in the result map, and the two entries
\* differ.
C9_NotAttemptedDistinct ==
    \A p \in Passes :
        Returned(p) =>
            /\ NotAttemptedText(p, "company_name") => "company_name" \in DOMAIN results[p]
            /\ \A i \in ImageIndex : fixed_images[i].name \in DOMAIN results[p]
            /\ \A i, j \in ImageIndex :
                  (NotAttemptedImage(p, i) /\ ~NotAttemptedImage(p, j) /\ ImageFails(p, j)) =>
                      results[p][fixed_images[i].name] # results[p][fixed_images[j].name]

(***************************************************************************)
(* Properties of two passes at the same time                               *)
(***************************************************************************)

\* C5: two passes never write the same output artifact.
C5_NoCommonArtifact ==
    \A w1, w2 \in writes : w1.by # w2.by => w1.path # w2.path

(***************************************************************************)
(* Properties of the substitution engine                                   *)
(***************************************************************************)

\* The token of the calls of the model and the lines of a value.
TokenX == placeholder_pattern(<<"x">>)

Lines(value) == SplitOn(value, NL)

WholeShape(shape) ==
    Contains(full_text(shape), TokenX) /\ is_whole_shape(full_text(shape), TokenX)

InlineShape(shape) ==
    Contains(full_text(shape), TokenX) /\ ~is_whole_shape(full_text(shape), TokenX)

LabelOnOneLine(text) ==
    \A i \in 1..Len(text) :
        (text[i] = ":" /\ \A j \in 1..(i - 1) : text[j] # ":")
            => \A j \in 1..(i - 1) : text[j] # NL

C11_StandaloneRecognised ==
    (call.state = "done" /\ RemoveWS(full_text(call.shape)) = TokenX) =>
        /\ call.count = 1
        /\ Len(call.out.paras) = Len(Lines(call.value))

\* The places where the token occurs in the paragraphs of a shape.
TokenPlaces(shape) ==
    {<<i, j>> \in (1..Len(shape.paras)) \X (1..Len(full_text(shape))) :
        j \in Occurrences(para_text(shape.paras[i]), TokenX)}

\* The paragraphs of a shape that hold the token.
TokenParas(shape) ==
    {i \in 1..Len(shape.paras) : Contains(para_text(shape.paras[i]), TokenX)}

\* C12 as claimed: on the inline path no paragraph holds the token
\* afterwards and the count returned is the number of occurrences of the
\* token in the shape.
C12_OccurrencesCounted ==
    (call.state = "done" /\ InlineShape(call.shape)) =>
        /\ \A i \in 1..Len(call.out.paras) : ~Contains(para_text(call.out.paras[i]), TokenX)
        /\ call.count = Cardinality(TokenPlaces(call.shape))

\* C12 as amended: on the inline path each paragraph is evaluated on its
\* own.  A paragraph that holds the token has every occurrence replaced
\* and holds no token afterwards, a paragraph without it keeps its runs,
\* and the count returned is the number of paragraphs that held the token:
\* a paragraph with two occurrences counts once.
C12_ParagraphsCounted ==
    (call.state = "done" /\ InlineShape(call.shape)) =>
        /\ Len(call.out.paras) = Len(call.shape.paras)
        /\ call.count = Cardinality(TokenParas(call.shape))
        /\ call.count <= Cardinality(TokenPlaces(call.shape))
        /\ \A i \in 1..Len(call.shape.paras) :
              IF i \in TokenParas(call.shape)
              THEN LET text == ReplaceAll(para_text(call.shape.paras[i]), TokenX, call.value)
                   IN  /\ ~Contains(para_text(call.out.paras[i]), TokenX)
                       /\ (~Contains(call.value, <<"*">>) /\ LabelOnOneLine(text)) =>
                              para_text(call.out.paras[i]) = text
              ELSE call.out.paras[i] = call.shape.paras[i]

\* A shape with the token in two of its three paragraphs, twice in the
\* last, was given the value "a": the count is two for three occurrences.
C12_Witness ==
    /\ call.state = "done"
    /\ call.shape = TextShape(<<"a {{x}}", "no", "{{x}}{{x}} b">>)
    /\ call.value = <<"a">>
    /\ call.count = 2
    /\ para_text(call.out.paras[3]) = Chars("aa b")

(***************************************************************************)
(* Properties of the renderer                                              *)
(***************************************************************************)

\* replace_shape_text has returned, once or twice.
Rendered == call.state \in {"once", "twice"}

\* The runs of a shape.
RunsOf(shape) ==
    UNION {{shape.paras[i][k] : k \in 1..Len(shape.paras[i])} : i \in 1..Len(shape.paras)}

\* C13: after replace_shape_text the shape has one paragraph for every
\* line of the text, an empty line gives a paragraph without a run, no
\* paragraph holds more text than its line, and nothing of the prior
\* paragraphs is left, whatever their number.
C13_ParagraphPerLine ==
    Rendered =>
        LET lines == Lines(call.value.s)
            paras == call.out.paras
        IN  /\ Len(paras) = Len(lines)
            /\ \A i \in 1..Len(paras) :
                  /\ lines[i] = <<>> => paras[i] = <<>>
                  /\ Len(para_text(paras[i])) <= Len(lines[i])
                  /\ \A k \in 1..Len(paras[i]) :
                        \A n \in 1..Len(paras[i][k].text) : paras[i][k].text[n] \in ValueChars

\* A shape without a paragraph was given a text of two lines, the first
\* of them empty.
C13_Witness ==
    /\ call.state = "once"
    /\ call.shape = [paras |-> <<>>]
    /\ call.value = Str(<<"\n", "a">>)
    /\ call.out.paras = << <<>>, <<[text |-> <<"a">>, bold |-> call.bold]>> >>

\* C14: the second of two calls of replace_shape_text with the same value
\* and formatting leaves the paragraphs and runs the first call left.
C14_RenderTwice ==
    call.state = "twice" => call.out = call.first

\* A shape of three paragraphs was rendered twice with a value of two
\* lines that holds a marked segment.
C14_Witness ==
    /\ call.state = "twice"
    /\ Len(call.shape.paras) = 3
    /\ call.value = Str(Chars("**a**\n"))
    /\ ~call.bold
    /\ call.out.paras = << <<[text |-> <<"a">>, bold |-> TRUE]>>, <<>> >>

\* The line has a label: its first colon is not its first character.
HasLabel(line) ==
    \E c \in 2..Len(line) : line[c] = ":" /\ \A j \in 1..(c - 1) : line[j] # ":"

RECURSIVE Segments(_)
Segments(s) ==
    IF ~Contains(s, <<"*">>) THEN [ok |-> TRUE, xs |-> {}]
    ELSE LET i == Least(Occurrences(s, <<"*">>))
             close == {j \in (i + 3)..(Len(s) - 1) :
                          /\ s[j] = "*" /\ s[j + 1] = "*"
                          /\ \A k \in (i + 2)..(j - 1) : s[k] \notin {"*", NL}}
         IN  IF i < Len(s) /\ s[i + 1] = "*" /\ close # {}
             THEN LET j == Least(close)
                      rest == Segments(Slice(s, j + 2, Len(s)))
                  IN  [ok |-> rest.ok, xs |-> rest.xs \cup {Slice(s, i + 2, j - 1)}]
             ELSE [ok |-> FALSE, xs |-> {}]

\* C16 as claimed: a value that holds the segment **a** gives a bold run
\* that reads "a", and no run of the shape holds a '*'.
C16_BoldSegment ==
    (Rendered /\ Contains(call.value.s, Chars("**a**"))) =>
        /\ \E r \in RunsOf(call.out) : r.bold /\ r.text = <<"a">>
        /\ \A r \in RunsOf(call.out) : ~Contains(r.text, <<"*">>)

\* C16 as amended: a value whose '*' all belong to segments **x**, with x
\* not empty and free of '*' and of line breaks, gives a bold run that
\* reads x for every such segment, and no run of the shape holds a '*'.
C16_WellMarkedSegments ==
    (Rendered /\ Contains(call.value.s, <<"*">>) /\ Segments(call.value.s).ok) =>
        /\ \A x \in Segments(call.value.s).xs :
              \E r \in RunsOf(call.out) : r.bold /\ r.text = x
        /\ \A r \in RunsOf(call.out) : ~Contains(r.text, <<"*">>)
        /\ \A i \in 1..Len(call.out.paras) :
              ~call.bold =>
                 Cardinality({k \in 1..Len(call.out.paras[i]) : call.out.paras[i][k].bold})
                    <= Cardinality(Segments(Lines(call.value.s)[i]).xs) + 1

\* A value with two marked segments was rendered: a bold run for each.
C16_Witness ==
    /\ call.state = "once"
    /\ call.value = Str(Chars("**a** **a a**"))
    /\ ~call.bold
    /\ call.out.paras = << <<[text |-> <<"a">>, bold |-> TRUE],
                              [text |-> <<" ">>, bold |-> FALSE],
                              [text |-> Chars("a a"), bold |-> TRUE]>> >>

\* C17 as claimed: a null or empty value does not make replace_shape_text
\* raise, and the shape is left with one paragraph of one empty run.
C17_EmptyClears ==
    (call.state # "ready" /\ call.value \in {Null, Str(<<>>)}) =>
        /\ call.state # "raised"
        /\ Len(call.out.paras) = 1
        /\ Len(call.out.paras[1]) = 1
        /\ call.out.paras[1][1].text = <<>>

(***************************************************************************)
(* Properties of the financial table                                       *)
(***************************************************************************)

\* The table was built from the fields of the years.
GridBuilt == call.state = "done" /\ ~has_markdown_table(call.data)

\* C18 as claimed: the grid built from the fields of the years has 8 rows
\* of 6 columns.
C18_EightBySix ==
    GridBuilt =>
        /\ Len(call.grid) = 8
        /\ \A r \in 1..Len(call.grid) : Len(call.grid[r]) = 6

\* The labels of the rows under the header.
RowLabels ==
    <<Chars("Sales"), Chars("YoY% growth"), Chars("EBITDA"), Chars("% Margin"),
      Chars("YoY% growth"), Chars("PAT"), Chars("YoY% growth"), Chars("P/E"), Chars("P/B")>>

\* C18 as amended: the grid built from the fields of the years has a
\* header row and 9 rows under it (Sales, YoY%, EBITDA, Margin%, YoY%, PAT,
\* YoY%, P/E, P/B), each of 6 columns: a label and the years FY24A to FY28E.
C18_HeaderAndNineBySix ==
    GridBuilt =>
        /\ Len(call.grid) = 10
        /\ \A r \in 1..Len(call.grid) : Len(call.grid[r]) = 6
        /\ call.grid[1] = <<Chars("Particulars"), Chars("FY24A"), Chars("FY25A"),
                            Chars("FY26E"), Chars("FY27E"), Chars("FY28E")>>
        /\ \A r \in 1..9 : call.grid[r + 1][1] = RowLabels[r]

\* The grid of a record with fields of three metrics was built.
C18_Witness ==
    /\ GridBuilt
    /\ "pe_fy24" \in DOMAIN call.data
    /\ call.grid[9][2] = Chars("18.2")
    /\ call.grid[4][2] # NoValue

\* The number a value of the model's records denotes, if it denotes one.
Denoted(v) ==
    IF v.t = "num" THEN [ok |-> TRUE, n |-> v.n]
    ELSE IF v = Str(Chars("1,200")) THEN [ok |-> TRUE, n |-> 1200]
    ELSE [ok |-> FALSE, n |-> 0]

\* How the numbers of the model's records read with thousands separators.
Separated(n) ==
    CASE n = 1200 -> Chars("1,200")
      [] n = 110 -> Chars("110")
      [] n = 100 -> Chars("100")
      [] n = 0 -> Chars("0")
      [] n = -50 -> Chars("-50")

\* C19: the table is built for every record, and a cell of the Sales row
\* reads "-" when its field is absent, null, empty, "-" or a string that
\* is no number, and reads the number of the field otherwise, a string
\* with a thousands separator taken for the number it denotes.
C19_GridNeverFails ==
    call.state = "done" =>
        /\ call.grid # <<>>
        /\ \A r \in 1..Len(call.grid) : \A c \in 1..Len(call.grid[r]) : call.grid[r][c] # <<>>
        /\ GridBuilt =>
              /\ \A c \in 2..3 :
                    LET v == Get(call.data, FyKey("revenue", 22 + c), Absent)
                    IN  call.grid[2][c] = IF Denoted(v).ok THEN Separated(Denoted(v).n)
                                          ELSE <<"-">>
              /\ \A c \in 4..6 : call.grid[2][c] = <<"-">>
              /\ \A r \in 2..10 : \A c \in 2..6 :
                    (\A k \in DOMAIN call.data : ~Denoted(call.data[k]).ok) =>
                        call.grid[r][c] = <<"-">>

\* The tenths a cell with one decimal place reads, and whether the cell
\* has that form.
Tenths(cell) ==
    LET neg == cell # <<>> /\ cell[1] = "-"
        body == IF neg THEN Tail(cell) ELSE cell
        whole == Slice(body, 1, Len(body) - 2)
        ok == /\ Len(body) >= 3
              /\ IsDigits(whole)
              /\ body[Len(body) - 1] = "."
              /\ IsDigit(body[Len(body)])
        t == IF ok THEN DigitsVal(whole) * 10 + DigitVal(body[Len(body)]) ELSE 0
    IN  [ok |-> ok, t |-> IF neg THEN -t ELSE t]

Abs(n) == IF n < 0 THEN -n ELSE n

\* The string float() reads as the float that is not a number.
NotANumber == Str(Chars("nan"))

\* What C20 asks of the growth cell of the values curr and prev: values
\* that are numbers give the quotient within half a tenth; a value read as
\* the float that is not a number is present and not zero, and the
\* quotient with it is not a number either.
GrowthCellRight(cell, curr, prev) ==
    LET present(v) == Denoted(v).ok \/ v = NotANumber
    IN  IF Denoted(curr).ok /\ Denoted(prev).ok /\ Denoted(prev).n # 0
        THEN LET c == Denoted(curr).n
                 p == Denoted(prev).n
             IN  /\ Tenths(cell).ok
                 /\ 2 * Abs(1000 * (c - p) - Tenths(cell).t * Abs(p)) <= Abs(p)
        ELSE IF present(curr) /\ present(prev) /\ prev # Num(0)
        THEN cell = Chars("nan")
        ELSE cell = <<"-">>

GridMarkdown == Chars("|A|B|\n|---|---|\n| 1 |2|")

GridMarkdownRows == << <<Chars("A"), Chars("B")>>, <<Chars("1"), Chars("2")>> >>

\* C21: when the financial_performance field holds a pipe the grid is the
\* rows the parser of pipe tables reads from it, whatever the fields of
\* the years hold, and nothing computed; the grid is built from the fields
\* of the years only when the field holds no pipe.
C21_MarkdownTableFirst ==
    call.state = "done" =>
        LET financial_val == Get(call.data, "financial_performance", Str(<<>>))
            pipe == financial_val.t = "str" /\ \E i \in 1..Len(financial_val.s) : financial_val.s[i] = "|"
        IN  /\ pipe => call.grid = parse_markdown_table_to_data(financial_val.s)
            /\ financial_val = Str(GridMarkdown) => call.grid = GridMarkdownRows
            /\ ~pipe => /\ Len(call.grid) = 10
                        /\ call.grid[1] = headers
                        /\ call.grid[2] = direct_row(call.enriched, "Sales", "revenue", "{:,.0f}")

\* A record with a markdown table and with sales of two years: the grid is
\* the table.
C21_Witness ==
    /\ call.state = "done"
    /\ Get(call.data, "financial_performance", Null) = Str(GridMarkdown)
    /\ Get(call.data, "revenue_fy24", Absent) = Num(100)
    /\ Get(call.data, "revenue_fy25", Absent) = Num(110)
    /\ call.grid = GridMarkdownRows

(***************************************************************************)
(* Properties of the financial table in a generation pass                  *)
(***************************************************************************)

\* The token of the financial table.
GridToken == Chars("{{financial_table}}")

\* The record of pass p holds the values of the end-to-end scenario.
AcmeScenario(p) ==
    /\ GetOpt(request[p], "company_name") = Str(Chars("Acme Corp"))
    /\ GetOpt(request[p], "revenue_fy24") = Num(100)
    /\ GetOpt(request[p], "revenue_fy25") = Num(121)
    /\ ~has_markdown_table(request[p])

\* C22: a pass over a template that holds {{company_name}} and the token
\* of the financial table, for a record with the company name "Acme Corp"
\* and sales of 100 and 121, gives a document whose title shape reads
\* "Acme Corp" and which shows, where the token of the table stood, the
\* sales 121 and the growth 21.0 of FY25.
C22_GridInserted ==
    \A p \in Passes :
        (Returned(p) /\ AcmeScenario(p)) =>
            \A i \in 1..Len(template.shapes) :
                /\ Strip(full_text(template.shapes[i])) = Chars("{{company_name}}") =>
                      Strip(full_text(prs[p].shapes[i])) = Chars("Acme Corp")
                /\ full_text(template.shapes[i]) = GridToken =>
                      /\ Contains(full_text(prs[p].shapes[i]), Chars("121"))
                      /\ Contains(full_text(prs[p].shapes[i]), Chars("21.0"))

(***************************************************************************)
(* Properties of the placeholders of the fields of the years               *)
(***************************************************************************)

\* The text listed for the placeholder key, or <<"none">> when the
\* placeholder is not listed.
Listed(key) ==
    LET hits == {n \in 1..Len(call.dynamic) : call.dynamic[n].placeholder = key}
    IN  IF hits = {} THEN <<"none">>
        ELSE <<"text", call.dynamic[CHOOSE n \in hits : TRUE].value.s>>

\* The metrics with a row of their own in the grid, and the row.
GridMetrics == {"revenue", "ebitda", "pat", "pe", "pb"}

RowOf(metric) ==
    CASE metric = "revenue" -> 2
      [] metric = "ebitda" -> 4
      [] metric = "pat" -> 7
      [] metric = "pe" -> 9
      [] metric = "pb" -> 10

\* The numeric values of the model's records in hundredths, and whether a
\* value is one of them.
Hundredths(v) ==
    IF v.t = "num" THEN 100 * v.n
    ELSE CASE v.s = Chars("1,200") -> 120000
           [] v.s = Chars("-12.5") -> -1250
           [] v.s = Chars("18.25") -> 1825

IsNumeric(v) ==
    \/ v.t = "num"
    \/ v.t = "str" /\ v.s \in {Chars("1,200"), Chars("-12.5"), Chars("18.25")}

\* C23 as claimed: a field of a metric and a year that holds a number is
\* listed as a placeholder, and the text of the placeholder is the string
\* the cell of the metric and the year shows in the grid.
C23_SameAsGrid ==
    GridBuilt =>
        \A metric \in GridMetrics : \A y \in 24..28 :
            LET key == FyKey(metric, y)
            IN  (key \in DOMAIN call.data /\ IsNumeric(call.data[key])) =>
                    Listed(key) = <<"text", call.grid[RowOf(metric)][y - 22]>>

\* The text of the placeholder of a metric for the numeric values of the
\* model's records: one decimal place under 100, thousands separators and
\* no decimal place from 100 on.
ShownAs(v) ==
    CASE v = Num(100) -> Chars("100")
      [] v = Num(110) -> Chars("110")
      [] v = Num(150) -> Chars("150")
      [] v = Num(0) -> Chars("0.0")
      [] v = Num(-50) -> Chars("-50.0")
      [] v = Num(30) -> Chars("30.0")
      [] v = Str(Chars("1,200")) -> Chars("1,200")
      [] v = Str(Chars("-12.5")) -> Chars("-12.5")
      [] v = Str(Chars("18.25")) -> Chars("18.2")

\* C23 as amended: a field of a metric and a year that holds a number is
\* listed as a placeholder with one decimal place when the number is under
\* 100 and with thousands separators and no decimal place otherwise; a
\* derived field of growth or margin is listed with one decimal place.
\* The text is the string of the grid cell for sales, EBITDA and PAT of
\* 100 or more and for P/E and P/B under 100.
C23_SameFromHundredOn ==
    GridBuilt =>
        /\ \A metric \in GridMetrics : \A y \in 24..28 :
              LET key == FyKey(metric, y)
                  v == call.data[key]
                  whole == metric \in {"revenue", "ebitda", "pat"}
              IN  (key \in DOMAIN call.data /\ IsNumeric(v)) =>
                      /\ Listed(key) = <<"text", ShownAs(v)>>
                      /\ (whole <=> Hundredths(v) >= 10000) =>
                            Listed(key) = <<"text", call.grid[RowOf(metric)][y - 22]>>
        /\ \A n \in 1..Len(call.dynamic) :
              LET key == call.dynamic[n].placeholder
              IN  (key \notin DOMAIN call.data /\ call.dynamic[n].value.s # Chars("nan")) =>
                      Tenths(call.dynamic[n].value.s).ok

\* Sales of 100 and of 1,200 and a P/E of 18.25 read the same in the grid
\* and in their placeholders; a derived growth is listed as well.
C23_Witness ==
    /\ GridBuilt
    /\ Get(call.data, "revenue_fy24", Absent) = Num(100)
    /\ Get(call.data, "revenue_fy25", Absent) = Str(Chars("1,200"))
    /\ Get(call.data, "pe_fy24", Absent) = Str(Chars("18.25"))
    /\ Listed("revenue_fy24") = <<"text", Chars("100")>>
    /\ Listed("revenue_fy25") = <<"text", call.grid[2][3]>>
    /\ Listed("pe_fy24") = <<"text", call.grid[9][2]>>
    /\ Listed("revenue_growth_fy25") = <<"text", Chars("1100.0")>>

(***************************************************************************)
(* Properties of the text normalizer                                       *)
(***************************************************************************)

\* parse_markdown_to_text has returned.
Normalized == call.state = "done"

\* The segments with emphasis markers of the model's texts.
EmphasisSegments == {Chars("**b**"), Chars("*i*"), Chars("__B__"), Chars("_j_")}

\* C24: every **bold**, *italic*, __bold__ and _italic_ segment of the
\* input of parse_markdown_to_text is in its output with its markers.
C24_MarkersPreserved ==
    (Normalized /\ call.markdown_text # Null) =>
        \A seg \in EmphasisSegments :
            Contains(call.markdown_text.s, seg) => Contains(call.out.s, seg)

\* The lines of a text.
LinesOf(text) == SplitOn(text, NL)

\* C25: the output of parse_markdown_to_text never holds two blank lines
\* in a row, also when the blank lines of the input hold spaces or tabs,
\* each of its lines is trimmed, and empty or null input gives the empty
\* string.
C25_BlankLinesCollapsed ==
    Normalized =>
        /\ ~Contains(call.out.s, <<NL, NL, NL>>)
        /\ \A i \in 1..Len(LinesOf(call.out.s)) :
              Strip(LinesOf(call.out.s)[i]) = LinesOf(call.out.s)[i]
        /\ call.markdown_text \in {Null, Str(<<>>)} => call.out = Str(<<>>)

(***************************************************************************)
(* Properties of the parser of pipe tables                                 *)
(***************************************************************************)

\* C26: the rows parse_markdown_table_to_data reads from a rectangular
\* table hold one trimmed cell for each cell of the table, the empty
\* cells at their column, so all rows have the same number of cells.
C26_EmptyCellKeepsColumn ==
    call.state = "done" =>
        /\ Len(call.table_data) = Len(call.cells)
        /\ \A r \in 1..Len(call.table_data) :
              /\ Len(call.table_data[r]) = TableWidth
              /\ call.table_data[r] = call.cells[r]

(***************************************************************************)
(* Properties of the substitution engine: tokens found and tokens left     *)
(***************************************************************************)

\* C27: when the text of the shape, its paragraphs put end to end, holds
\* the token, find_and_replace_placeholder changes the shape and returns a
\* count above 0, and the text of the shape holds the token no more, also
\* when the token lies over the end of a paragraph of a shape with other
\* text.
C27_FoundMeansReplaced ==
    (call.state = "done" /\ Contains(full_text(call.shape), TokenX)) =>
        /\ call.count > 0
        /\ call.out # call.shape
        /\ ~Contains(call.value, TokenX) => ~Contains(full_text(call.out), TokenX)

(***************************************************************************)
(* Properties of a generation pass: values with tokens                     *)
(***************************************************************************)

\* C28: a company name that holds the text {{recommendation}} is written
\* as it is where the template holds {{company_name}}, and the token in it
\* is not replaced when the recommendation is substituted later in the
\* pass.
C28_ValueNotExpanded ==
    \A p \in Passes :
        LET name == GetOpt(request[p], "company_name")
        IN  (Returned(p) /\ name.t = "str" /\ Contains(name.s, Chars("{{recommendation}}"))) =>
                \A i \in 1..Len(template.shapes) :
                    Strip(full_text(template.shapes[i])) = Chars("{{company_name}}") =>
                        full_text(prs[p].shapes[i]) = name.s

\* C29: where the template holds {{revenue_fy24}} and the field of the
\* record is null or a string that is no number, the pass writes "-", the
\* text the grid shows for such a value, and not the text of the value.
C29_FallbackForNoNumber ==
    \A p \in Passes :
        (/\ Returned(p)
         /\ "revenue_fy24" \in DOMAIN request[p]
         /\ request[p]["revenue_fy24"] \in {Null, Str(Chars("abc")), Str(Chars("-"))}) =>
            \A i \in 1..Len(template.shapes) :
                full_text(template.shapes[i]) = Chars("{{revenue_fy24}}") =>
                    /\ full_text(prs[p].shapes[i]) = <<"-">>
                    /\ table_data(data[p])[2][2] = <<"-">>

(***************************************************************************)
(* Properties of the replacement of a token by a picture                   *)
(***************************************************************************)

\* The shapes of the document of the call whose text holds the token.
TokenShapes == {i \in 1..Len(call.doc.shapes) : Contains(full_text(call.doc.shapes[i]), TokenX)}

\* C30: replace_placeholder_with_image returns False and leaves the
\* document as it was when no text shape holds the token or the picture
\* cannot be inserted; otherwise it returns True, the document has one
\* picture more, at the slide and the rectangle of the first shape that
\* holds the token, the text of that shape is cleared and nothing else is
\* changed.
C30_ChangedOnlyOnSuccess ==
    call.state = "done" =>
        IF TokenShapes = {} \/ call.image_data # "ok"
        THEN call.success = FALSE /\ call.out = call.doc
        ELSE LET first == CHOOSE i \in TokenShapes : \A j \in TokenShapes : i <= j
                 n == Len(call.out.pictures)
             IN  /\ call.success = TRUE
                 /\ n = Len(call.doc.pictures) + 1
                 /\ SubSeq(call.out.pictures, 1, n - 1) = call.doc.pictures
                 /\ call.out.pictures[n].slide = call.doc.shapes[first].slide
                 /\ call.out.pictures[n].pos = call.doc.shapes[first].pos
                 /\ full_text(call.out.shapes[first]) = <<>>
                 /\ call.out.shapes[first].pos = call.doc.shapes[first].pos
                 /\ Len(call.out.shapes) = Len(call.doc.shapes)
                 /\ \A j \in 1..Len(call.doc.shapes) :
                       j # first => call.out.shapes[j] = call.doc.shapes[j]

\* Two shapes hold the token: the picture lies at the rectangle of the
\* first one, whose text is cleared, and the second one still holds the
\* token.
C30_Witness ==
    /\ call.state = "done"
    /\ TokenShapes = {1, 2}
    /\ call.success
    /\ Len(call.out.pictures) = 1
    /\ call.out.pictures[1].pos = Rect(100, 50, 301, 201)
    /\ full_text(call.out.shapes[1]) = <<>>
    /\ Contains(full_text(call.out.shapes[2]), TokenX)

\* No picture could be inserted: the shape that holds the token is as it
\* was.
C30_WitnessFailure ==
    /\ call.state = "done"
    /\ TokenShapes # {}
    /\ call.image_data = "undecodable"
    /\ ~call.success
    /\ call.out = call.doc

====
